---- MODULE Spec2Model ----
(***************************************************************************)
(* donkeyops: a GitHub webhook bot (src/src/index.ts).                     *)
(*                                                                         *)
(* Text is modelled as a sequence of one-character strings, so that trim,  *)
(* toLowerCase, includes and the conventional-commit regular expression    *)
(* are computed character by character.                                    *)
(***************************************************************************)
EXTENDS Integers, Sequences, FiniteSets, TLC

VARIABLES
    \* arguments and results of the pure functions; in the handlers, the
    \* locals of the same names
    called,           \* which pure function has been applied ("none" before)
    commitMessage,    \* validateCommitMessage: commitMessage
    typeEnum,         \* rule set: allowed types
    validComponents,  \* rule set: allowed components
    commitFormat,     \* rule set: display-only format template
    validation,       \* CommitValidationResult of the last validation
    title,            \* detectLabelsFromTitle: title; pull_request.title
    detectedLabels,   \* detected labels
    \* the repository and the pull request, as the remote API holds them
    repoFile,         \* .donkeyops.yml at the ref
    prCommits,        \* commits of the pull request
    prLabels,         \* labels on the pull request
    comments,         \* comments created on the pull request
    \* one handler invocation at a time
    run,              \* number of handler invocations started
    handler,          \* the handler that is running or has run last
    pc,               \* the remote call the handler awaits next
    status,           \* how the last invocation ended
    invalidCommits,   \* checkCommitsInPR: invalidCommits
    newLabels,        \* applyLabelsToPR: newLabels
    \* history
    calls,            \* remote calls issued, in order
    applied,          \* invocations of applyLabelsToPR, in order
    \* slash commands
    body,             \* parseSlashCommand: body; the text of the comment
    command,          \* the SlashCommand parsed from body, or null
    issue,            \* the issue or pull request the comment is on
    \* deliveries handled at the same time
    tasks             \* per delivery: its handler, position and locals

pureVars == <<called, commitMessage, validation>>
ruleVars == <<typeEnum, validComponents, commitFormat>>
remoteVars == <<repoFile, prCommits, prLabels, comments>>
handlerVars == <<run, handler, pc, status, invalidCommits, newLabels>>
historyVars == <<calls, applied>>
slashVars == <<body, command, issue>>
taskVars == <<tasks>>

vars == <<called, commitMessage, typeEnum, validComponents, commitFormat,
          validation, title, detectedLabels, repoFile, prCommits, prLabels,
          comments, run, handler, pc, status, invalidCommits, newLabels,
          calls, applied, body, command, issue, tasks>>

(***************************************************************************)
(* Bounds of the model.                                                    *)
(***************************************************************************)
\* a generated commit message departs from the plain well-formed message in
\* at most this many of its segments
MaxVariations == 2
\* generated PR titles have at most this many characters
MaxTitleLen == 4
\* a generated command line has at most this many words after its first token
MaxWords == 3
\* at most this many comment events are delivered
MaxDeliveries == 1
\* a pull request has at most this many commits
MaxCommits == 2
\* at most this many handler invocations are delivered, one after the other
MaxRuns == 2

(***************************************************************************)
(* Characters and strings.                                                 *)
(***************************************************************************)
Uppers == <<"A","B","C","D","E","F","G","H","I","J","K","L","M",
            "N","O","P","Q","R","S","T","U","V","W","X","Y","Z">>
Lowers == <<"a","b","c","d","e","f","g","h","i","j","k","l","m",
            "n","o","p","q","r","s","t","u","v","w","x","y","z">>
Digits == {"0","1","2","3","4","5","6","7","8","9"}

Range(s) == {s[i] : i \in 1..Len(s)}

Min(S) == CHOOSE x \in S : \A y \in S : x <= y
Max(S) == CHOOSE x \in S : \A y \in S : x >= y

\* String.prototype.toLowerCase, one character
LowerChar(c) ==
    IF \E i \in 1..26 : Uppers[i] = c
    THEN Lowers[CHOOSE i \in 1..26 : Uppers[i] = c]
    ELSE c

\* String.prototype.toLowerCase
toLowerCase(s) == [i \in 1..Len(s) |-> LowerChar(s[i])]

\* \s of the regular expression, and the characters trim() strips
IsSpace(c) == c \in {" ", "\t", "\n", "\r"}

\* . of the regular expression (no s flag): anything but a line terminator
IsDot(c) == c \notin {"\n", "\r"}

\* [a-zA-Z\-]
IsTypeChar(c) == c = "-" \/ c \in Range(Uppers) \/ c \in Range(Lowers)

\* \d
IsDigit(c) == c \in Digits

\* String.prototype.trim
trim(s) ==
    LET keep == {i \in 1..Len(s) : ~IsSpace(s[i])}
    IN  IF keep = {} THEN <<>> ELSE SubSeq(s, Min(keep), Max(keep))

\* String.prototype.includes
includes(s, t) ==
    \E i \in 0..(Len(s) - Len(t)) : SubSeq(s, i + 1, i + Len(t)) = t

\* Array.prototype.join(', ') is kept as the list of the joined items
join(list) == list

(***************************************************************************)
(* Built-in defaults.                                                      *)
(***************************************************************************)
DEFAULT_TYPE_ENUM ==
    << <<"b","u","i","l","d">>,
       <<"c","h","o","r","e">>,
       <<"c","i">>,
       <<"d","o","c","s">>,
       <<"f","e","a","t">>,
       <<"f","i","x">>,
       <<"p","e","r","f">>,
       <<"r","e","f","a","c","t","o","r">>,
       <<"r","e","v","e","r","t">>,
       <<"s","t","y","l","e">>,
       <<"t","e","s","t">> >>

DEFAULT_VALID_COMPONENTS ==
    << <<"T","e","s","t","i","n","g">>,
       <<"C","l","i","e","n","t","s">>,
       <<"C","o","r","e">>,
       <<"W","e","b","U","I">>,
       <<"D","a","t","a","b","a","s","e">>,
       <<"A","P","I">>,
       <<"D","o","c","u","m","e","n","t","a","t","i","o","n">>,
       <<"I","n","f","r","a","s","t","r","u","c","t","u","r","e">>,
       <<"S","e","c","u","r","i","t","y">>,
       <<"P","e","r","f","o","r","m","a","n","c","e">>,
       <<"M","o","n","i","t","o","r","i","n","g">>,
       <<"D","e","p","l","o","y","m","e","n","t">>,
       <<"C","I","/","C","D">>,
       <<"D","e","p","e","n","d","e","n","c","i","e","s">>,
       <<"B","u","g"," ","F","i","x">>,
       <<"F","e","a","t","u","r","e">>,
       <<"E","n","h","a","n","c","e","m","e","n","t">>,
       <<"C","o","r","e"," ","&"," ","I","n","t","e","r","n","a","l","s">>,
       <<"R","e","f","a","c","t","o","r","i","n","g">>,
       <<"D","o","c","s">> >>

DEFAULT_COMMIT_FORMAT == "<type>(<component>): <short_message> #<issue_number>"

(***************************************************************************)
(* /^([a-zA-Z\-]+)\(([^)]+)\):\s+(.+?)\s+#(\d+)$/i                         *)
(* computed as the backtracking matcher computes it.  The result is the    *)
(* match array restricted to the groups the program reads (type,           *)
(* component), or NoMatch for null.                                        *)
(***************************************************************************)
NoMatch == [matched |-> FALSE]

\* \s+(.+?)\s+#(\d+)$ applied to the text after the colon
TailMatch(s) ==
    LET n      == Len(s)
        nondig == {i \in 1..n : ~IsDigit(s[i])}
        h      == IF nondig = {} THEN 0 ELSE Max(nondig)  \* place of '#'
    IN  /\ h >= 1
        /\ h < n                                            \* \d+
        /\ s[h] = "#"
        /\ \E a \in 1..(h - 1) : \E b \in (a + 1)..(h - 2) :
              /\ \A i \in 1..a : IsSpace(s[i])              \* \s+
              /\ \A i \in (a + 1)..b : IsDot(s[i])          \* (.+?)
              /\ \A i \in (b + 1)..(h - 1) : IsSpace(s[i])  \* \s+

conventionalCommitRegex(s) ==
    LET n       == Len(s)
        nontype == {i \in 1..n : ~IsTypeChar(s[i])}
        \* [a-zA-Z\-]+ is greedy and cannot give back a character to \(
        open    == IF nontype = {} THEN n + 1 ELSE Min(nontype)
        closers == {i \in (open + 1)..n : s[i] = ")"}
        close   == IF closers = {} THEN n + 1 ELSE Min(closers)
    IN  IF /\ open >= 2
           /\ open <= n
           /\ s[open] = "("
           /\ close <= n
           /\ close >= open + 2                             \* [^)]+
           /\ close + 1 <= n
           /\ s[close + 1] = ":"
           /\ TailMatch(SubSeq(s, close + 2, n))
        THEN [matched   |-> TRUE,
              type      |-> SubSeq(s, 1, open - 1),
              component |-> SubSeq(s, open + 1, close - 1)]
        ELSE NoMatch

(***************************************************************************)
(* validateCommitMessage                                                   *)
(***************************************************************************)
\* variant: the comparison forgets toLowerCase
someEquals_caseSensitive(list, name) ==
    \E i \in 1..Len(list) : list[i] = name

\* list.some(v => v.toLowerCase() === name.toLowerCase())
someEqualsIgnoreCase(list, name) ==
    \E i \in 1..Len(list) : toLowerCase(list[i]) = toLowerCase(name)

\* variant: the warning shows the built-in template, not the configured one
FormatWarning_builtinTemplate(te, vc, cf) ==
    [heading         |-> "Conventional Commit Warning",
     quoted          |-> <<>>,
     expectedFormat  |-> DEFAULT_COMMIT_FORMAT,
     validTypes      |-> join(te),
     validComponents |-> join(vc)]

FormatWarning(te, vc, cf) ==
    [heading         |-> "Conventional Commit Warning",
     quoted          |-> <<>>,
     expectedFormat  |-> cf,
     validTypes      |-> join(te),
     validComponents |-> join(vc)]

TypeWarning(type, te) ==
    [heading         |-> "Invalid Type Warning",
     quoted          |-> type,
     expectedFormat  |-> "",
     validTypes      |-> join(te),
     validComponents |-> <<>>]

\* variant: the warning quotes the lowercased component
ComponentWarning_lowercased(component, te, vc) ==
    [heading         |-> "Invalid Component Warning",
     quoted          |-> toLowerCase(component),
     expectedFormat  |-> "",
     validTypes      |-> join(te),
     validComponents |-> join(vc)]

ComponentWarning(component, te, vc) ==
    [heading         |-> "Invalid Component Warning",
     quoted          |-> component,
     expectedFormat  |-> "",
     validTypes      |-> join(te),
     validComponents |-> join(vc)]

\* variant: the component is checked before the type
validateCommitMessage_componentFirst(msg, te, vc, cf) ==
    LET trimmedMessage == trim(msg)
        match          == conventionalCommitRegex(trimmedMessage)
    IN  IF ~match.matched
        THEN [isValid |-> FALSE, warning |-> FormatWarning(te, vc, cf)]
        ELSE IF ~someEqualsIgnoreCase(vc, match.component)
        THEN [isValid |-> FALSE,
              warning |-> ComponentWarning(match.component, te, vc)]
        ELSE IF ~someEqualsIgnoreCase(te, match.type)
        THEN [isValid |-> FALSE, warning |-> TypeWarning(match.type, te)]
        ELSE [isValid |-> TRUE]

validateCommitMessage(msg, te, vc, cf) ==
    LET trimmedMessage == trim(msg)
        match          == conventionalCommitRegex(trimmedMessage)
    IN  IF ~match.matched
        THEN [isValid |-> FALSE, warning |-> FormatWarning(te, vc, cf)]
        ELSE IF ~someEqualsIgnoreCase(te, match.type)
        THEN [isValid |-> FALSE, warning |-> TypeWarning(match.type, te)]
        ELSE IF ~someEqualsIgnoreCase(vc, match.component)
        THEN [isValid |-> FALSE,
              warning |-> ComponentWarning(match.component, te, vc)]
        ELSE [isValid |-> TRUE]

(***************************************************************************)
(* Inputs of the validator.  A commit message is the concatenation of      *)
(* eleven segments; each segment is either one of its plain spellings or   *)
(* a variation (missing, misplaced, other casing, extra whitespace, line   *)
(* break), and at most MaxVariations segments vary.                        *)
(***************************************************************************)
Plain(seg) == seg[1]
Varied(seg) == seg[2]
Choices(seg) == Plain(seg) \cup Varied(seg)
Cost(seg, x) == IF x \in Plain(seg) THEN 0 ELSE 1

SegLead  == << { <<>> }, { <<" ">> } >>
SegType  == << { <<"f","i","x">> },
               { <<"F","i","X">>, <<"w","i","p">>, <<>>, <<"f","1">> } >>
SegOpen  == << { <<"(">> }, { <<>> } >>
SegComp  == << { <<"C","o","r","e">> },
               { <<"c","O","R","E">>, <<"W","e","b">>, <<>>,
                 <<" ","C","o","r","e">> } >>
SegClose == << { <<")",":">> }, { <<")">>, <<":">>, <<")",")",":">> } >>
SegWs1   == << { <<" ">> }, { <<>>, <<"\n">>, <<" "," ">> } >>
SegText  == << { <<"x">> },
               { <<>>, <<"x"," ","y">>, <<"x","\n","y">>, <<" ">> } >>
SegWs2   == << { <<" ">> }, { <<>>, <<"\t">> } >>
SegHash  == << { <<"#">> }, { <<>> } >>
SegNum   == << { <<"1">> }, { <<"1","2">>, <<>>, <<"1","a">> } >>
SegTrail == << { <<>> }, { <<"\n">>, <<" ","x">> } >>

PlainMessage == <<"f","i","x","(","C","o","r","e",")",":"," ","x"," ","#","1">>

Messages ==
    { IF Cost(SegLead, a) + Cost(SegType, b) + Cost(SegOpen, c)
         + Cost(SegComp, d) + Cost(SegClose, e) + Cost(SegWs1, f)
         + Cost(SegText, g) + Cost(SegWs2, h) + Cost(SegHash, i)
         + Cost(SegNum, j) + Cost(SegTrail, k) <= MaxVariations
      THEN a \o b \o c \o d \o e \o f \o g \o h \o i \o j \o k
      ELSE PlainMessage :
        a \in Choices(SegLead), b \in Choices(SegType),
        c \in Choices(SegOpen), d \in Choices(SegComp),
        e \in Choices(SegClose), f \in Choices(SegWs1),
        g \in Choices(SegText), h \in Choices(SegWs2),
        i \in Choices(SegHash), j \in Choices(SegNum),
        k \in Choices(SegTrail) }

\* rule sets: the defaults, a repository's own lists, an explicitly empty list
TypeEnums == { DEFAULT_TYPE_ENUM, << <<"W","I","P">> >>, <<>> }
ComponentLists ==
    { DEFAULT_VALID_COMPONENTS, << <<"w","e","b">>, <<"D","o","c","s">> >>, <<>> }
CommitFormats == { DEFAULT_COMMIT_FORMAT, "<type>(<component>): <msg> #<nr>" }

NoValidation == [isValid |-> FALSE]

\* parseSlashCommand: null
Null == [isNull |-> TRUE]

\* the target of a comment, untouched: inPayload says whether the payload
\* carries `issue`, isPR whether pulls.get finds the number
Issue(inPayload, isPR) ==
    [inPayload |-> inPayload, isPR |-> isPR,
     state |-> "open", assignees |-> {}, approvals |-> 0]

\* no comment is delivered
NoComment ==
    /\ body = <<>>
    /\ command = Null
    /\ issue = Issue(TRUE, TRUE)

\* no delivery is being handled beside the one at hand
NoTasks == <<>>

\* no webhook event is delivered: the pure functions are applied on their own
NoFile == [kind |-> "absent"]

NoEvent ==
    /\ repoFile = NoFile
    /\ prCommits = <<>>
    /\ prLabels = {}
    /\ comments = <<>>
    /\ run = 0
    /\ handler = "none"
    /\ pc = "idle"
    /\ status = "none"
    /\ invalidCommits = <<>>
    /\ newLabels = <<>>
    /\ calls = <<>>
    /\ applied = <<>>
    /\ tasks = NoTasks

(***************************************************************************)
(* Specification of the validator: any message against any rule set.       *)
(***************************************************************************)
InitValidate ==
    /\ called = "none"
    /\ commitMessage \in Messages
    /\ typeEnum \in TypeEnums
    /\ validComponents \in ComponentLists
    /\ commitFormat \in CommitFormats
    /\ validation = NoValidation
    /\ title = <<>>
    /\ detectedLabels = <<>>
    /\ NoEvent
    /\ NoComment

Validate ==
    /\ called = "none"
    /\ called' = "validateCommitMessage"
    /\ validation' = validateCommitMessage(commitMessage, typeEnum,
                                           validComponents, commitFormat)
    /\ UNCHANGED <<commitMessage, typeEnum, validComponents, commitFormat,
                   title, detectedLabels>>
    /\ UNCHANGED <<remoteVars, handlerVars, historyVars, slashVars, taskVars>>

NextValidate == Validate

SpecValidate == InitValidate /\ [][NextValidate]_vars

(***************************************************************************)
(* Properties of the validator.                                            *)
(*                                                                         *)
(* The shape  type(component): text #N  is stated here by the places of    *)
(* its punctuation, independently of the matcher above: whitespace may     *)
(* surround the message, type is letters and hyphens, component has no     *)
(* closing parenthesis, text is on one line and N is digits.               *)
(***************************************************************************)
Places(s, ch) == {i \in 1..Len(s) : s[i] = ch}

ShapeParses(s) ==
    LET solid == {i \in 1..Len(s) : s[i] \notin {" ", "\t", "\n", "\r"}}
        first == Min(solid)
        last  == Max(solid)
    IN  IF solid = {} THEN {}
        ELSE
        { [type |-> SubSeq(s, first, po[1] - 1),
           component |-> SubSeq(s, po[1] + 1, po[2] - 1)] :
          po \in { q \in Places(s, "(") \X Places(s, ")") :
              /\ first < q[1]
              /\ q[1] + 1 < q[2]
              /\ q[2] + 1 < last
              /\ \A i \in first..(q[1] - 1) :
                    s[i] = "-" \/ \E l \in 1..26 : s[i] \in {Uppers[l], Lowers[l]}
              /\ \A i \in (q[1] + 1)..(q[2] - 1) : s[i] # ")"
              /\ s[q[2] + 1] = ":"
              /\ \E h \in Places(s, "#") :
                    /\ q[2] + 4 < h
                    /\ h < last
                    /\ \A i \in (h + 1)..last : s[i] \in Digits
                    /\ \E x \in (q[2] + 3)..(h - 2) : \E y \in x..(h - 2) :
                          /\ \A i \in (q[2] + 2)..(x - 1) :
                                s[i] \in {" ", "\t", "\n", "\r"}
                          /\ \A i \in x..y : s[i] \notin {"\n", "\r"}
                          /\ \A i \in (y + 1)..(h - 1) :
                                s[i] \in {" ", "\t", "\n", "\r"} } }

\* name equals, ignoring case, some member of list
InList(list, name) ==
    \E i \in 1..Len(list) :
        /\ Len(list[i]) = Len(name)
        /\ \A k \in 1..Len(name) :
              \/ list[i][k] = name[k]
              \/ \E l \in 1..26 : {list[i][k], name[k]} = {Uppers[l], Lowers[l]}

Validated == called = "validateCommitMessage"

\* C1: a message of the shape type(component): text #N whose type and
\* component are, ignoring case, in the rule set is valid and carries no
\* warning.
C1_ValidWhenInRuleSet ==
    Validated =>
        \A p \in ShapeParses(commitMessage) :
            (InList(typeEnum, p.type) /\ InList(validComponents, p.component))
                => validation = [isValid |-> TRUE]

\* C1 witness: a message in another casing than the rule set has been found
\* valid.
C1_Witness ==
    /\ Validated
    /\ validation.isValid
    /\ \E p \in ShapeParses(commitMessage) :
          /\ \A i \in 1..Len(typeEnum) : typeEnum[i] # p.type
          /\ \A i \in 1..Len(validComponents) : validComponents[i] # p.component

\* C2: a message that does not have the shape is invalid and its warning
\* contains the format template that was passed in.
C2_FormatWarning ==
    (Validated /\ ShapeParses(commitMessage) = {}) =>
        /\ ~validation.isValid
        /\ validation.warning.heading = "Conventional Commit Warning"
        /\ validation.warning.expectedFormat = commitFormat

\* C2 witness: a malformed message was validated against a rule set with its
\* own format template.
C2_Witness ==
    /\ Validated
    /\ ShapeParses(commitMessage) = {}
    /\ commitFormat # DEFAULT_COMMIT_FORMAT
    /\ ~validation.isValid

\* C3: a message of the shape whose type is not in the rule set gets the
\* Invalid Type Warning, whether or not its component is recognized.
C3_TypeWarningFirst ==
    Validated =>
        \A p \in ShapeParses(commitMessage) :
            ~InList(typeEnum, p.type) =>
                /\ ~validation.isValid
                /\ validation.warning.heading = "Invalid Type Warning"
                /\ validation.warning.quoted = p.type

\* C3 witness: both the type and the component are unrecognized.
C3_Witness ==
    /\ Validated
    /\ \E p \in ShapeParses(commitMessage) :
          /\ ~InList(typeEnum, p.type)
          /\ ~InList(validComponents, p.component)
    /\ ~validation.isValid

\* C4: a message of the shape whose type is allowed and whose component is
\* not gets the Invalid Component Warning, which quotes the component as the
\* message spells it.
C4_ComponentWarning ==
    Validated =>
        \A p \in ShapeParses(commitMessage) :
            (InList(typeEnum, p.type) /\ ~InList(validComponents, p.component))
                =>  /\ ~validation.isValid
                    /\ validation.warning.heading = "Invalid Component Warning"
                    /\ validation.warning.quoted = p.component

\* C4 witness: the unrecognized component contains a capital letter, and a
\* lowercase spelling of it would differ.
C4_Witness ==
    /\ Validated
    /\ ~validation.isValid
    /\ \E p \in ShapeParses(commitMessage) :
          /\ InList(typeEnum, p.type)
          /\ ~InList(validComponents, p.component)
          /\ \E k \in 1..Len(p.component) : \E l \in 1..26 :
                p.component[k] = Uppers[l]

(***************************************************************************)
(* detectLabelsFromTitle                                                   *)
(***************************************************************************)
RECURSIVE detectLoop(_, _, _, _)
\* the for loop over validComponents, from index i, with the labels so far
detectLoop(titleLower, vc, i, labels) ==
    IF i > Len(vc) THEN labels
    ELSE LET component      == vc[i]
             componentLower == toLowerCase(component)
         IN  IF includes(titleLower, componentLower)
             THEN detectLoop(titleLower, vc, i + 1, Append(labels, component))
             ELSE detectLoop(titleLower, vc, i + 1, labels)

\* variant: the title is searched as written, without toLowerCase
detectLabelsFromTitle_titleAsWritten(t, vc) ==
    detectLoop(t, vc, 1, <<>>)

detectLabelsFromTitle(t, vc) ==
    detectLoop(toLowerCase(t), vc, 1, <<>>)

(***************************************************************************)
(* Specification of the title detector: every title of at most             *)
(* MaxTitleLen characters against several component lists.                 *)
(***************************************************************************)
TitleChars == {"a", "A", "b", " "}

Titles == UNION { [1..n -> TitleChars] : n \in 0..MaxTitleLen }

TitleComponentLists ==
    { << <<"a">>, <<"b">> >>,
      << <<"B">>, <<"A","b">> >>,
      << <<"a"," ","b">>, <<"A">>, <<"a">> >>,
      << <<>>, <<"b","a">> >>,
      <<>> }

InitDetect ==
    /\ called = "none"
    /\ title \in Titles
    /\ validComponents \in TitleComponentLists
    /\ detectedLabels = <<>>
    /\ commitMessage = <<>>
    /\ typeEnum = <<>>
    /\ commitFormat = ""
    /\ validation = NoValidation
    /\ NoEvent
    /\ NoComment

Detect ==
    /\ called = "none"
    /\ called' = "detectLabelsFromTitle"
    /\ detectedLabels' = detectLabelsFromTitle(title, validComponents)
    /\ UNCHANGED <<commitMessage, typeEnum, validComponents, commitFormat,
                   validation, title>>
    /\ UNCHANGED <<remoteVars, handlerVars, historyVars, slashVars, taskVars>>

NextDetect == Detect

SpecDetect == InitDetect /\ [][NextDetect]_vars

\* c occurs in t at offset off, ignoring case
OccursAt(t, c, off) ==
    /\ off + Len(c) <= Len(t)
    /\ \A k \in 1..Len(c) :
          \/ t[off + k] = c[k]
          \/ \E l \in 1..26 : {t[off + k], c[k]} = {Uppers[l], Lowers[l]}

\* the places in the component list of the components that occur in the title
Occurring(t, vc) ==
    {i \in 1..Len(vc) : \E off \in 0..Len(t) : OccursAt(t, vc[i], off)}

\* the first place at which c occurs in t
FirstOffset(t, c) == Min({off \in 0..Len(t) : OccursAt(t, c, off)})

Detected == called = "detectLabelsFromTitle"

\* C10: the result lists exactly the allowed components that occur in the
\* title ignoring case, in the order and in the casing of the allowed list.
C10_DetectFromTitle ==
    Detected =>
        LET occ == Occurring(title, validComponents)
        IN  /\ Len(detectedLabels) = Cardinality(occ)
            /\ \A i \in occ :
                  detectedLabels[1 + Cardinality({j \in occ : j < i})]
                      = validComponents[i]

\* C10 witness: two components were detected, the one listed first occurs
\* later in the title, and a detected component is spelled in another casing
\* in the title.
C10_Witness ==
    /\ Detected
    /\ Len(detectedLabels) >= 2
    /\ FirstOffset(title, detectedLabels[1]) > FirstOffset(title, detectedLabels[2])
    /\ \E k \in 1..Len(detectedLabels) : ~includes(title, detectedLabels[k])

(***************************************************************************)
(* The repository configuration.  A parsed document is a record that has   *)
(* a field exactly when the YAML document sets it.                         *)
(***************************************************************************)
Has(obj, field) == field \in DOMAIN obj

\* {} : what getDonkeyOpsConfig returns from its catch
EmptyConfig == [kind |-> "object"]

\* yaml.load of a document without content
Undefined == [kind |-> "undefined"]

\* yaml.load(Buffer.from(content, "base64").toString())
yamlLoad(file) == IF file.kind = "empty" THEN Undefined ELSE file.doc

\* getDonkeyOpsConfig: ok says whether repos.getContent answered; a file
\* that is not there and a document yaml.load rejects end in the catch
getDonkeyOpsConfig(file, ok) ==
    IF ok /\ file.kind \notin {"absent", "malformed"}
    THEN yamlLoad(file)
    ELSE EmptyConfig

\* config.conventional_commits?.type_enum || DEFAULT_TYPE_ENUM
typeEnumOf(config) ==
    IF /\ Has(config, "conventional_commits")
       /\ Has(config.conventional_commits, "type_enum")
    THEN config.conventional_commits.type_enum
    ELSE DEFAULT_TYPE_ENUM

\* config.conventional_commits?.valid_components || DEFAULT_VALID_COMPONENTS
validComponentsOf(config) ==
    IF /\ Has(config, "conventional_commits")
       /\ Has(config.conventional_commits, "valid_components")
    THEN config.conventional_commits.valid_components
    ELSE DEFAULT_VALID_COMPONENTS

\* config.conventional_commits?.commit_format || DEFAULT_COMMIT_FORMAT
commitFormatOf(config) ==
    IF /\ Has(config, "conventional_commits")
       /\ Has(config.conventional_commits, "commit_format")
       /\ config.conventional_commits.commit_format # ""
    THEN config.conventional_commits.commit_format
    ELSE DEFAULT_COMMIT_FORMAT

\* config.conventional_commits?.enabled !== false
commitCheckEnabled(config) ==
    ~ (/\ Has(config, "conventional_commits")
       /\ Has(config.conventional_commits, "enabled")
       /\ config.conventional_commits.enabled = FALSE)

\* the labeling flag read from the section of the commit check
prLabelingEnabled_commitFlag(config) ==
    ~ (/\ Has(config, "conventional_commits")
       /\ Has(config.conventional_commits, "enabled")
       /\ config.conventional_commits.enabled = FALSE)

\* config.pr_labeling?.enabled !== false
prLabelingEnabled(config) ==
    ~ (/\ Has(config, "pr_labeling")
       /\ Has(config.pr_labeling, "enabled")
       /\ config.pr_labeling.enabled = FALSE)

(***************************************************************************)
(* Repositories and pull requests the handlers are run on.                 *)
(***************************************************************************)
CustomFormat == "<type>(<component>): <msg> #<nr>"

RepoFiles ==
    { NoFile,
      [kind |-> "empty"],
      [kind |-> "malformed"],
      [kind |-> "yaml", doc |-> [kind |-> "scalar"]],
      [kind |-> "yaml",
       doc |-> [kind |-> "object",
                conventional_commits |->
                    [type_enum        |-> <<>>,
                     valid_components |-> <<>>,
                     commit_format    |-> ""]]],
      [kind |-> "yaml",
       doc |-> [kind |-> "object",
                conventional_commits |-> [enabled |-> FALSE]]],
      [kind |-> "yaml",
       doc |-> [kind |-> "object",
                pr_labeling |-> [enabled |-> FALSE]]],
      [kind |-> "yaml",
       doc |-> [kind |-> "object",
                conventional_commits |->
                    [type_enum        |-> << <<"w","i","p">> >>,
                     valid_components |-> << <<"A","P","I">>,
                                             <<"C","o","r","e">>,
                                             <<"A","P","I">> >>,
                     commit_format    |-> CustomFormat,
                     enabled          |-> TRUE]]] }

\* "fix(core): x #1"
CommitFixCore ==
    [sha |-> <<"a","1","b","2","c","3","d","4">>,
     message |-> <<"f","i","x","(","c","o","r","e",")",":"," ","x"," ","#","1">>]
\* "oops"
CommitOops ==
    [sha |-> <<"0","0","0","0","0","0","0","9">>,
     message |-> <<"o","o","p","s">>]
\* "fix(Web): x #2"
CommitFixWeb ==
    [sha |-> <<"e","5","f","6","a","7","b","8">>,
     message |-> <<"f","i","x","(","W","e","b",")",":"," ","x"," ","#","2">>]
\* "wip(API): y #3" followed by a line break
CommitWipApi ==
    [sha |-> <<"c","9","d","0","e","1","f","2">>,
     message |-> <<"w","i","p","(","A","P","I",")",":"," ","y"," ","#","3","\n">>]

CommitPool == {CommitFixCore, CommitOops, CommitFixWeb, CommitWipApi}

CommitLists == UNION { [1..n -> CommitPool] : n \in 0..MaxCommits }

\* "Fix API of core" and "wip"
PRTitles ==
    { <<"F","i","x"," ","A","P","I"," ","o","f"," ","c","o","r","e">>,
      <<"w","i","p">> }

InitialLabels == { {}, { <<"C","o","r","e">> } }

(***************************************************************************)
(* Remote calls are recorded as they are issued.                           *)
(***************************************************************************)
EmptyBody == [found |-> 0, entries |-> <<>>]

Call(op, ok) ==
    [run |-> run, op |-> op, ok |-> ok,
     labels |-> <<>>, result |-> {}, body |-> EmptyBody, arg |-> <<>>]

\* variant: the block that reports a failure runs after the switch whether
\* or not anything failed (finally in the place of catch)
Finish_throughCatch(outcome) ==
    IF handler = "handleSlashCommands" /\ pc \notin {"failed", "done"}
       /\ outcome = "returned"
    THEN pc' = "failed" /\ status' = "running"
    ELSE pc' = "done" /\ status' = outcome

\* the handler invocation ends
Finish(outcome) ==
    /\ pc' = "done"
    /\ status' = outcome

\* a handler invocation begins: the locals are fresh
Begin(h) ==
    /\ pc \in {"idle", "done"}
    /\ run < MaxRuns
    /\ run' = run + 1
    /\ handler' = h
    /\ pc' = "getConfig"
    /\ status' = "running"
    /\ typeEnum' = <<>>
    /\ validComponents' = <<>>
    /\ commitFormat' = ""
    /\ detectedLabels' = <<>>
    /\ invalidCommits' = <<>>
    /\ newLabels' = <<>>
    /\ UNCHANGED <<pureVars, slashVars, taskVars, title, remoteVars, historyVars>>

(***************************************************************************)
(* applyLabelsToPR                                                         *)
(***************************************************************************)
\* variant: the early return for an empty list is missing
nothingToApply_never(labels) == FALSE

\* if (labels.length === 0) return;
nothingToApply(labels) == Len(labels) = 0

RECURSIVE filterLoop(_, _, _, _)
filterLoop(labels, currentLabelNames, i, out) ==
    IF i > Len(labels) THEN out
    ELSE IF labels[i] \notin currentLabelNames
         THEN filterLoop(labels, currentLabelNames, i + 1, Append(out, labels[i]))
         ELSE filterLoop(labels, currentLabelNames, i + 1, out)

\* variant: the current labels are not subtracted
filterNewLabels_all(labels, currentLabelNames) == labels

\* labels.filter(label => !currentLabelNames.includes(label))
filterNewLabels(labels, currentLabelNames) ==
    filterLoop(labels, currentLabelNames, 1, <<>>)

\* variant: addLabels is called whatever the difference is
shouldAddLabels_always(labels) == TRUE

\* if (newLabels.length > 0)
shouldAddLabels(labels) == Len(labels) > 0

\* variant: the error of the remote call is thrown on
applyLabelsCatch_rethrow(ok) == IF ok THEN "returned" ELSE "threw"

\* try { ... } catch (error) { console.error(...) }: how applyLabelsToPR
\* ends after a remote call that answered (ok) or failed
applyLabelsCatch(ok) == "returned"

\* applyLabelsToPR(context, labels), up to its first await
ApplyEntry(labels) ==
    /\ applied' = Append(applied, [run |-> run, labels |-> labels])
    /\ IF nothingToApply(labels)
       THEN Finish("returned")
       ELSE pc' = "listLabels" /\ UNCHANGED status

\* await issues.listLabelsOnIssue, then the filter
ListLabels ==
    /\ pc = "listLabels"
    /\ \E ok \in BOOLEAN :
          LET fresh == IF ok THEN filterNewLabels(detectedLabels, prLabels)
                       ELSE <<>>
          IN  /\ calls' = Append(calls,
                     [Call("issues.listLabelsOnIssue", ok) EXCEPT
                         !.result = IF ok THEN prLabels ELSE {}])
              /\ newLabels' = fresh
              /\ IF ok /\ shouldAddLabels(fresh)
                 THEN pc' = "addLabels" /\ UNCHANGED status
                 ELSE Finish(applyLabelsCatch(ok))
    /\ UNCHANGED <<pureVars, slashVars, taskVars, ruleVars, title, detectedLabels, remoteVars,
                   run, handler, invalidCommits, applied>>

\* await issues.addLabels
AddLabels ==
    /\ pc = "addLabels"
    /\ \E ok \in BOOLEAN :
          /\ calls' = Append(calls,
                 [Call("issues.addLabels", ok) EXCEPT !.labels = newLabels])
          /\ prLabels' = IF ok THEN prLabels \cup Range(newLabels) ELSE prLabels
          /\ Finish(applyLabelsCatch(ok))
    /\ UNCHANGED <<pureVars, slashVars, taskVars, ruleVars, title, detectedLabels, repoFile,
                   prCommits, comments, run, handler, invalidCommits,
                   newLabels, applied>>

(***************************************************************************)
(* autoLabelPR                                                             *)
(***************************************************************************)
RECURSIVE commitComponentsLoop(_, _, _, _)
\* the loop over the commits; out is Array.from(commitComponents)
commitComponentsLoop(commits, vc, i, out) ==
    IF i > Len(commits) THEN out
    ELSE LET match == conventionalCommitRegex(commits[i].message)
         IN  IF match.matched /\ someEqualsIgnoreCase(vc, match.component)
             THEN LET k == Min({j \in 1..Len(vc) :
                                  toLowerCase(vc[j]) = toLowerCase(match.component)})
                      exactComponent == vc[k]
                  IN  IF exactComponent \in Range(out)
                      THEN commitComponentsLoop(commits, vc, i + 1, out)
                      ELSE commitComponentsLoop(commits, vc, i + 1,
                                                Append(out, exactComponent))
             ELSE commitComponentsLoop(commits, vc, i + 1, out)

RECURSIVE commitSpellingLoop(_, _, _, _)
commitSpellingLoop(commits, vc, i, out) ==
    IF i > Len(commits) THEN out
    ELSE LET match == conventionalCommitRegex(commits[i].message)
         IN  IF match.matched /\ someEqualsIgnoreCase(vc, match.component)
                /\ match.component \notin Range(out)
             THEN commitSpellingLoop(commits, vc, i + 1,
                                     Append(out, match.component))
             ELSE commitSpellingLoop(commits, vc, i + 1, out)

\* variant: the component is added as the commit spells it
commitComponents_asWritten(commits, vc) ==
    commitSpellingLoop(commits, vc, 1, <<>>)

commitComponents(commits, vc) == commitComponentsLoop(commits, vc, 1, <<>>)

\* variant: the commits are consulted whatever the title gave
needsCommitFallback_always(labels) == TRUE

\* if (detectedLabels.length === 0)
needsCommitFallback(labels) == Len(labels) = 0

\* pull_request.opened, pull_request.edited
StartLabel ==
    /\ \E event \in {"opened", "edited"} : event # "synchronize"
    /\ Begin("autoLabelPR")

\* await getDonkeyOpsConfig, then the title detection
LabelGetConfig ==
    /\ pc = "getConfig"
    /\ handler = "autoLabelPR"
    /\ \E ok \in BOOLEAN :
          LET answered == ok /\ repoFile.kind # "absent"
              config   == getDonkeyOpsConfig(repoFile, ok)
              throws   == config.kind = "undefined"
              enabled  == ~throws /\ prLabelingEnabled(config)
              vc       == IF enabled THEN validComponentsOf(config) ELSE <<>>
              detected == IF enabled THEN detectLabelsFromTitle(title, vc)
                          ELSE <<>>
          IN  /\ calls' = Append(calls, Call("repos.getContent", answered))
              /\ validComponents' = vc
              /\ detectedLabels' = detected
              /\ IF throws THEN Finish("threw") /\ UNCHANGED applied
                 ELSE IF ~enabled THEN Finish("returned") /\ UNCHANGED applied
                 ELSE IF needsCommitFallback(detected)
                 THEN pc' = "listCommits" /\ UNCHANGED <<status, applied>>
                 ELSE ApplyEntry(detected)
    /\ UNCHANGED <<pureVars, slashVars, taskVars, typeEnum, commitFormat, title, remoteVars,
                   run, handler, invalidCommits, newLabels>>

\* await pulls.listCommits, then the components of the commits
LabelListCommits ==
    /\ pc = "listCommits"
    /\ handler = "autoLabelPR"
    /\ \E ok \in BOOLEAN :
          LET detected == IF ok THEN commitComponents(prCommits, validComponents)
                          ELSE <<>>
          IN  /\ calls' = Append(calls, Call("pulls.listCommits", ok))
              /\ detectedLabels' = detected
              /\ ApplyEntry(detected)
    /\ UNCHANGED <<pureVars, slashVars, taskVars, ruleVars, title, remoteVars, run, handler,
                   invalidCommits, newLabels>>

InitLabel ==
    /\ called = "none"
    /\ commitMessage = <<>>
    /\ validation = NoValidation
    /\ typeEnum = <<>>
    /\ validComponents = <<>>
    /\ commitFormat = ""
    /\ detectedLabels = <<>>
    /\ title \in PRTitles
    /\ repoFile \in RepoFiles
    /\ prCommits \in CommitLists
    /\ prLabels \in InitialLabels
    /\ comments = <<>>
    /\ run = 0
    /\ handler = "none"
    /\ pc = "idle"
    /\ status = "none"
    /\ invalidCommits = <<>>
    /\ newLabels = <<>>
    /\ calls = <<>>
    /\ applied = <<>>
    /\ tasks = NoTasks
    /\ NoComment

NextLabel ==
    \/ StartLabel
    \/ LabelGetConfig
    \/ LabelListCommits
    \/ ListLabels
    \/ AddLabels

SpecLabel == InitLabel /\ [][NextLabel]_vars

(***************************************************************************)
(* Properties of the Label Applier.                                        *)
(***************************************************************************)
CallsOf(r, op) == {i \in 1..Len(calls) : calls[i].run = r /\ calls[i].op = op}

Reads(r) == CallsOf(r, "issues.listLabelsOnIssue")
Adds(r) == CallsOf(r, "issues.addLabels")

\* invocation r of a handler has ended
Ended(r) == run > r \/ (run = r /\ pc = "done")

\* the places of the requested labels that are not among the current ones
Missing(requested, current) ==
    {i \in 1..Len(requested) : requested[i] \notin current}

\* out lists the requested labels that are not current, in their order
IsDifference(out, requested, current) ==
    LET miss == Missing(requested, current)
    IN  /\ Len(out) = Cardinality(miss)
        /\ \A i \in miss :
              out[1 + Cardinality({j \in miss : j < i})] = requested[i]

\* C6: for a non-empty label list the applier reads the current labels, then
\* issues at most one add-labels call, only when a requested label is missing,
\* carrying exactly the requested labels that the read did not return.
C6_AddsExactlyTheMissing ==
    \A k \in 1..Len(applied) :
        LET r == applied[k].run
            requested == applied[k].labels
        IN  requested # <<>> =>
              /\ Cardinality(Reads(r)) <= 1
              /\ Cardinality(Adds(r)) <= 1
              /\ Ended(r) => Cardinality(Reads(r)) = 1
              /\ \A a \in Adds(r) : \E rd \in Reads(r) :
                    /\ rd < a
                    /\ calls[rd].ok
                    /\ Missing(requested, calls[rd].result) # {}
                    /\ IsDifference(calls[a].labels, requested, calls[rd].result)
                    /\ \A j \in 1..Len(calls[a].labels) :
                          calls[a].labels[j] \notin calls[rd].result
              /\ \A rd \in Reads(r) :
                    (Ended(r) /\ calls[rd].ok
                        /\ Missing(requested, calls[rd].result) # {})
                    => Adds(r) # {}

\* C6 witness: of two requested labels one was present, and the add-labels
\* call carried the other.
C6_Witness ==
    \E k \in 1..Len(applied) : \E a \in Adds(applied[k].run) :
        /\ Len(applied[k].labels) = 2
        /\ Len(calls[a].labels) = 1

\* C7: of two invocations in a row with the same labels, the second issues no
\* add-labels call when the add-labels call of the first succeeded.
C7_SecondRunAddsNothing ==
    \A k \in 1..(Len(applied) - 1) :
        LET first == applied[k]
            second == applied[k + 1]
        IN  (/\ second.run = first.run + 1
             /\ second.labels = first.labels
             /\ \E a \in Adds(first.run) : calls[a].ok)
            => Adds(second.run) = {}

\* C7 witness: the first invocation added all the requested labels to a PR
\* that had none of them, and the second invocation has read the labels and
\* ended.
C7_Witness ==
    /\ Len(applied) = 2
    /\ applied[1].labels = applied[2].labels
    /\ applied[2].run = applied[1].run + 1
    /\ \E a \in Adds(applied[1].run) :
          calls[a].ok /\ calls[a].labels = applied[1].labels
    /\ \E rd \in Reads(applied[2].run) : calls[rd].ok
    /\ Ended(applied[2].run)

\* C8: with an empty label list the applier issues neither the label read nor
\* an add-labels call.
C8_EmptyListNoRemoteCall ==
    \A k \in 1..Len(applied) :
        applied[k].labels = <<>> =>
            Reads(applied[k].run) = {} /\ Adds(applied[k].run) = {}

\* C8 witness: the applier was invoked with an empty list and the handler
\* has ended.
C8_Witness ==
    \E k \in 1..Len(applied) :
        applied[k].labels = <<>> /\ Ended(applied[k].run)

\* C9: when the label read or the add-labels call fails, the labeling handler
\* still returns normally.
C9_ApplierFailureCaught ==
    (/\ handler = "autoLabelPR"
     /\ pc = "done"
     /\ \E i \in Reads(run) \cup Adds(run) : ~calls[i].ok)
    => status = "returned"

\* C9 witness: an add-labels call failed and the handler has ended.
C9_Witness ==
    /\ handler = "autoLabelPR"
    /\ pc = "done"
    /\ \E i \in Adds(run) : ~calls[i].ok

\* C9 witness of the other failure: the label read failed.
C9_WitnessRead ==
    /\ handler = "autoLabelPR"
    /\ pc = "done"
    /\ \E i \in Reads(run) : ~calls[i].ok

(***************************************************************************)
(* checkCommitsInPR                                                        *)
(***************************************************************************)
\* String.prototype.substring(0, n)
substring0(str, n) == SubSeq(str, 1, IF n < Len(str) THEN n ELSE Len(str))

RECURSIVE invalidLoop(_, _, _, _, _, _)
\* the loop over the commits that fills invalidCommits
invalidLoop(commits, te, vc, cf, i, out) ==
    IF i > Len(commits) THEN out
    ELSE LET v == validateCommitMessage(commits[i].message, te, vc, cf)
         IN  IF ~v.isValid
             THEN invalidLoop(commits, te, vc, cf, i + 1,
                      Append(out, [sha        |-> substring0(commits[i].sha, 7),
                                   message    |-> commits[i].message,
                                   validation |-> v]))
             ELSE invalidLoop(commits, te, vc, cf, i + 1, out)

collectInvalidCommits(commits, te, vc, cf) ==
    invalidLoop(commits, te, vc, cf, 1, <<>>)

\* variant: a comment is posted also when nothing is invalid
shouldComment_always(invalid) == TRUE

\* if (invalidCommits.length > 0)
shouldComment(invalid) == Len(invalid) > 0

\* variant: the sections are written from the last invalid commit to the first
commentBody_lastFirst(invalid) ==
    [found   |-> Len(invalid),
     entries |-> [i \in 1..Len(invalid) |->
                    [sha     |-> invalid[Len(invalid) + 1 - i].sha,
                     message |-> invalid[Len(invalid) + 1 - i].message,
                     warning |-> invalid[Len(invalid) + 1 - i].validation.warning]]]

\* the comment: "Found N commit(s) ...", then one section per invalid commit
commentBody(invalid) ==
    [found   |-> Len(invalid),
     entries |-> [i \in 1..Len(invalid) |->
                    [sha     |-> invalid[i].sha,
                     message |-> invalid[i].message,
                     warning |-> invalid[i].validation.warning]]]

\* pull_request.opened, pull_request.synchronize
StartCheck ==
    /\ \E event \in {"opened", "synchronize"} : event # "edited"
    /\ Begin("checkCommitsInPR")

\* await getDonkeyOpsConfig, then the rule set and the enabled flag
CheckGetConfig ==
    /\ pc = "getConfig"
    /\ handler = "checkCommitsInPR"
    /\ \E ok \in BOOLEAN :
          LET answered == ok /\ repoFile.kind # "absent"
              config   == getDonkeyOpsConfig(repoFile, ok)
              throws   == config.kind = "undefined"
          IN  /\ calls' = Append(calls, Call("repos.getContent", answered))
              /\ typeEnum' = IF throws THEN <<>> ELSE typeEnumOf(config)
              /\ validComponents' =
                    IF throws THEN <<>> ELSE validComponentsOf(config)
              /\ commitFormat' = IF throws THEN "" ELSE commitFormatOf(config)
              /\ IF throws THEN Finish("threw")
                 ELSE IF ~commitCheckEnabled(config) THEN Finish("returned")
                 ELSE pc' = "listCommits" /\ UNCHANGED status
    /\ UNCHANGED <<pureVars, slashVars, taskVars, title, detectedLabels, remoteVars, run, handler,
                   invalidCommits, newLabels, applied>>

\* await pulls.listCommits, then the validation of every commit
CheckListCommits ==
    /\ pc = "listCommits"
    /\ handler = "checkCommitsInPR"
    /\ \E ok \in BOOLEAN :
          LET invalid == IF ok
                         THEN collectInvalidCommits(prCommits, typeEnum,
                                                    validComponents, commitFormat)
                         ELSE <<>>
          IN  /\ calls' = Append(calls, Call("pulls.listCommits", ok))
              /\ invalidCommits' = invalid
              /\ IF ok /\ shouldComment(invalid)
                 THEN pc' = "createComment" /\ UNCHANGED status
                 ELSE Finish("returned")
    /\ UNCHANGED <<pureVars, slashVars, taskVars, ruleVars, title, detectedLabels, remoteVars,
                   run, handler, newLabels, applied>>

\* await issues.createComment
CheckCreateComment ==
    /\ pc = "createComment"
    /\ handler = "checkCommitsInPR"
    /\ \E ok \in BOOLEAN :
          LET text == commentBody(invalidCommits)
          IN  /\ calls' = Append(calls,
                     [Call("issues.createComment", ok) EXCEPT !.body = text])
              /\ comments' = IF ok THEN Append(comments, text) ELSE comments
              /\ Finish("returned")
    /\ UNCHANGED <<pureVars, slashVars, taskVars, ruleVars, title, detectedLabels, repoFile,
                   prCommits, prLabels, run, handler, invalidCommits,
                   newLabels, applied>>

InitCheck ==
    /\ called = "none"
    /\ commitMessage = <<>>
    /\ validation = NoValidation
    /\ typeEnum = <<>>
    /\ validComponents = <<>>
    /\ commitFormat = ""
    /\ detectedLabels = <<>>
    /\ title \in PRTitles
    /\ repoFile \in RepoFiles
    /\ prCommits \in CommitLists
    /\ prLabels = {}
    /\ comments = <<>>
    /\ run = 0
    /\ handler = "none"
    /\ pc = "idle"
    /\ status = "none"
    /\ invalidCommits = <<>>
    /\ newLabels = <<>>
    /\ calls = <<>>
    /\ applied = <<>>
    /\ tasks = NoTasks
    /\ NoComment

NextCheck ==
    \/ StartCheck
    \/ CheckGetConfig
    \/ CheckListCommits
    \/ CheckCreateComment

SpecCheck == InitCheck /\ [][NextCheck]_vars

(***************************************************************************)
(* Properties of the commit check.                                         *)
(***************************************************************************)
\* the message has the shape and its type and component are in the rule set
Conventional(msg, te, vc) ==
    \E p \in ShapeParses(msg) : InList(te, p.type) /\ InList(vc, p.component)

\* the commits of the pull request that are not conventional under the rule
\* set the handler has resolved
Unconventional ==
    {i \in 1..Len(prCommits) :
        ~Conventional(prCommits[i].message, typeEnum, validComponents)}

Comments(r) == CallsOf(r, "issues.createComment")

\* invocation r listed the commits and the listing answered
Listed(r) == \E i \in CallsOf(r, "pulls.listCommits") : calls[i].ok

\* C5: when the check is enabled and the commit listing succeeds, the check
\* posts exactly one comment saying "Found N commit(s)", N the number of
\* invalid commits, if a commit is invalid, and no comment otherwise.
C5_OneCommentWithCount ==
    (handler = "checkCommitsInPR" /\ pc = "done" /\ Listed(run)) =>
        IF Unconventional # {}
        THEN /\ Cardinality(Comments(run)) = 1
             /\ \A i \in Comments(run) :
                   calls[i].body.found = Cardinality(Unconventional)
        ELSE Comments(run) = {}

\* C5 witness: a pull request with a valid and an invalid commit got its
\* comment.
C5_Witness ==
    /\ handler = "checkCommitsInPR"
    /\ pc = "done"
    /\ Listed(run)
    /\ Len(prCommits) = 2
    /\ Cardinality(Unconventional) = 1
    /\ Comments(run) # {}

\* C5 witness of the other case: every commit is valid and the check ended.
C5_WitnessAllValid ==
    /\ handler = "checkCommitsInPR"
    /\ pc = "done"
    /\ Listed(run)
    /\ Len(prCommits) >= 1
    /\ Unconventional = {}

(***************************************************************************)
(* Properties of the label detection in autoLabelPR.                       *)
(***************************************************************************)
\* the allowed components that occur in the title, in the order of the list
TitleLabels(t, vc) ==
    LET occ == Occurring(t, vc)
    IN  [k \in 1..Cardinality(occ) |->
            vc[CHOOSE i \in occ : Cardinality({j \in occ : j < i}) = k - 1]]

\* the labeling handler is past its configuration step
Labeling == handler = "autoLabelPR" /\ pc # "getConfig"

\* the applier invocations of the current handler invocation
AppliedNow == {k \in 1..Len(applied) : applied[k].run = run}

\* C11: the commits are listed only when the title gave no label; when the
\* title gives a label, exactly the title labels are applied and no commit is
\* listed.
C11_CommitsOnlyAsFallback ==
    Labeling =>
        LET fromTitle == TitleLabels(title, validComponents)
        IN  /\ CallsOf(run, "pulls.listCommits") # {} => fromTitle = <<>>
            /\ fromTitle # <<>> =>
                  /\ CallsOf(run, "pulls.listCommits") = {}
                  /\ Cardinality(AppliedNow) = 1
                  /\ \A k \in AppliedNow : applied[k].labels = fromTitle

\* C11 witness: the title gave labels, the pull request has a commit whose
\* component is an allowed one, and the handler has ended.
C11_Witness ==
    /\ Labeling
    /\ pc = "done"
    /\ TitleLabels(title, validComponents) # <<>>
    /\ \E i \in 1..Len(prCommits) : \E p \in ShapeParses(prCommits[i].message) :
          InList(validComponents, p.component)

\* the message has the shape as it stands, with nothing around it
ExactParses(msg) ==
    IF msg # <<>> /\ msg[1] \notin {" ", "\t", "\n", "\r"}
                  /\ msg[Len(msg)] \notin {" ", "\t", "\n", "\r"}
    THEN ShapeParses(msg)
    ELSE {}

\* the first allowed component that equals name ignoring case
Canonical(vc, name) ==
    vc[Min({j \in 1..Len(vc) : InList(<<vc[j]>>, name)})]

\* the labels the commits call for
CommitLabels(commits, vc) ==
    { Canonical(vc, p.component) :
        p \in { q \in UNION { ExactParses(commits[i].message) :
                                i \in 1..Len(commits) } :
                InList(vc, q.component) } }

\* the commit listing of the current invocation answered
FellBack == Labeling /\ Listed(run)

\* C12: commit-based detection yields, once each, the allowed-list spelling of
\* every allowed component that a commit of the shape names, whatever the
\* type of the commit.
C12_CommitLabelsCanonical ==
    FellBack =>
        /\ Range(detectedLabels) = CommitLabels(prCommits, validComponents)
        /\ Len(detectedLabels) = Cardinality(Range(detectedLabels))
        /\ \A k \in AppliedNow : applied[k].labels = detectedLabels

\* C12 witness: two commits name the same component in another casing than the
\* allowed list, their type is not among the types the repository allows,
\* and one label was detected.
C12_Witness ==
    /\ FellBack
    /\ Len(prCommits) = 2
    /\ Len(detectedLabels) = 1
    /\ repoFile.kind = "yaml"
    /\ \A i \in 1..2 : \E p \in ExactParses(prCommits[i].message) :
          /\ InList(validComponents, p.component)
          /\ p.component \notin Range(validComponents)
          /\ ~InList(typeEnumOf(repoFile.doc), p.type)

(***************************************************************************)
(* parseSlashCommand: the command of a comment body.                       *)
(***************************************************************************)
\* the literal '/donkeyops'
DONKEYOPS == <<"/", "d", "o", "n", "k", "e", "y", "o", "p", "s">>

\* String.prototype.startsWith, from any position of the text
startsWith_anywhere(s, prefix) == includes(s, prefix)

\* String.prototype.startsWith
startsWith(s, prefix) ==
    /\ Len(s) >= Len(prefix)
    /\ SubSeq(s, 1, Len(prefix)) = prefix

\* String.prototype.split with a separator of one character: the pieces
\* between separators, the empty ones included
RECURSIVE splitLoop(_, _, _, _)
splitLoop(s, seps, i, piece) ==
    IF i > Len(s) THEN <<piece>>
    ELSE IF s[i] \in seps
         THEN <<piece>> \o splitLoop(s, seps, i + 1, <<>>)
         ELSE splitLoop(s, seps, i + 1, Append(piece, s[i]))

split(s, sep) == splitLoop(s, {sep}, 1, <<>>)

\* the parts of a line, were it split at every white-space character
partsOf_anyWhitespace(trimmed) ==
    SelectSeq(splitLoop(trimmed, {" ", "\t", "\n", "\r"}, 1, <<>>),
              LAMBDA part : Len(part) > 0)

\* trimmed.split(' ').filter(part => part.length > 0)
partsOf(trimmed) ==
    SelectSeq(split(trimmed, " "), LAMBDA part : Len(part) > 0)

\* a command made of whatever parts there are
commandOf_loneToken(parts) ==
    [isNull |-> FALSE,
     command |-> IF Len(parts) >= 2 THEN parts[2] ELSE <<>>,
     args |-> SubSeq(parts, 3, Len(parts))]

\* if (parts.length >= 2) return { command: parts[1], args: parts.slice(2) }
commandOf(parts) ==
    IF Len(parts) >= 2
    THEN [isNull |-> FALSE,
          command |-> parts[2],
          args |-> SubSeq(parts, 3, Len(parts))]
    ELSE Null

\* for (const line of lines): the first line that makes a command returns it,
\* a line that makes none leaves the loop running
RECURSIVE parseLoop(_, _)
parseLoop(lines, i) ==
    IF i > Len(lines) THEN Null
    ELSE LET trimmed == trim(lines[i])
             found == IF startsWith(trimmed, DONKEYOPS)
                      THEN commandOf(partsOf(trimmed))
                      ELSE Null
         IN  IF found.isNull THEN parseLoop(lines, i + 1) ELSE found

parseSlashCommand(text) ==
    IF Len(text) = 0 \/ trim(text) = <<>>
    THEN Null
    ELSE parseLoop(split(text, "\n"), 1)

(***************************************************************************)
(* Comment bodies: one generated line, a short generated line with one     *)
(* more line before or after it, and the blank bodies.                     *)
(***************************************************************************)
\* the white space before and after a line
Pads == {<<<<>>, <<>>>>, <<<<" ">>, <<" ">>>>}
Heads == {DONKEYOPS, Append(DONKEYOPS, "x"), <<"s", "a", "y">>}
Separators == {<<" ">>, <<" ", " ">>, <<"\t">>}
Words == {<<"a">>, <<"B">>}

RECURSIVE Tails(_)
Tails(n) ==
    IF n = 0 THEN {<<>>}
    ELSE {<<>>} \cup {sep \o w \o t : sep \in Separators, w \in Words,
                                      t \in Tails(n - 1)}

LinesOfWords(n) ==
    {pad[1] \o h \o t \o pad[2] : pad \in Pads, h \in Heads, t \in Tails(n)}

GeneratedLines == LinesOfWords(MaxWords)
ShortLines == LinesOfWords(1)

OtherLines ==
    { <<>>,
      <<" ">>,
      <<"s", "a", "y", " ">> \o DONKEYOPS \o <<" ", "a">>,
      DONKEYOPS,
      DONKEYOPS \o <<" ", "B">> }

BlankBodies == {<<>>, <<" ">>, <<"\n">>, <<" ", "\n", "\t">>}

Bodies ==
    GeneratedLines
    \cup {o \o <<"\n">> \o g : o \in OtherLines, g \in ShortLines}
    \cup {g \o <<"\n">> \o o : o \in OtherLines, g \in ShortLines}
    \cup BlankBodies

(***************************************************************************)
(* Specification of the parser: any body.                                  *)
(***************************************************************************)
InitParse ==
    /\ called = "none"
    /\ body \in Bodies
    /\ command = Null
    /\ issue = Issue(TRUE, TRUE)
    /\ commitMessage = <<>>
    /\ typeEnum = <<>>
    /\ validComponents = <<>>
    /\ commitFormat = ""
    /\ validation = NoValidation
    /\ title = <<>>
    /\ detectedLabels = <<>>
    /\ NoEvent

Parse ==
    /\ called = "none"
    /\ called' = "parseSlashCommand"
    /\ command' = parseSlashCommand(body)
    /\ UNCHANGED <<commitMessage, validation, ruleVars, title, detectedLabels,
                   body, issue>>
    /\ UNCHANGED <<remoteVars, handlerVars, historyVars, taskVars>>

NextParse == Parse

SpecParse == InitParse /\ [][NextParse]_vars

(***************************************************************************)
(* Properties of the parser, stated on the text itself: lines are the      *)
(* stretches between line breaks, tokens the stretches between separators. *)
(***************************************************************************)
Parsed == called = "parseSlashCommand"

\* the k-th smallest member of a set of numbers
Nth(S, k) == CHOOSE x \in S : Cardinality({y \in S : y < x}) = k - 1

\* the longest stretches of t that hold no character of seps, in order
Stretches(t, seps) ==
    LET starts == {i \in 1..Len(t) :
                      /\ t[i] \notin seps
                      /\ (i = 1 \/ t[i - 1] \in seps)}
        endOf(i) == Max({j \in i..Len(t) :
                            \A k \in i..j : t[k] \notin seps})
    IN  [k \in 1..Cardinality(starts) |->
            SubSeq(t, Nth(starts, k), endOf(Nth(starts, k)))]

\* the lines of a text: what lies between one line break and the next
LinesOf(t) ==
    LET breaks == {i \in 1..Len(t) : t[i] = "\n"}
        edges == {0} \cup breaks \cup {Len(t) + 1}
    IN  [k \in 1..(Cardinality(breaks) + 1) |->
            SubSeq(t, Nth(edges, k) + 1, Nth(edges, k + 1) - 1)]

\* a text without the white space around it
Stripped(t) ==
    LET ink == {i \in 1..Len(t) : ~IsSpace(t[i])}
    IN  IF ink = {} THEN <<>> ELSE SubSeq(t, Min(ink), Max(ink))

\* a line whose trimmed form starts with /donkeyops
IsCommandLine(line) ==
    LET t == Stripped(line)
    IN  /\ Len(t) >= Len(DONKEYOPS)
        /\ \A k \in 1..Len(DONKEYOPS) : t[k] = DONKEYOPS[k]

CommandLines(t) == {k \in 1..Len(LinesOf(t)) : IsCommandLine(LinesOf(t)[k])}

SpaceTokens(line) == Stretches(Stripped(line), {" "})
WhitespaceTokens(line) == Stretches(Stripped(line), {" ", "\t", "\n", "\r"})

\* the command a sequence of tokens spells
Spelled(tokens) ==
    [isNull |-> FALSE,
     command |-> tokens[2],
     args |-> [k \in 1..(Len(tokens) - 2) |-> tokens[k + 2]]]

\* C13: parseSlashCommand returns none for an empty or white-space-only
\* body, for a body none of whose lines starts, once trimmed, with
\* /donkeyops, and for a body whose only command line is the lone token
\* /donkeyops.
C13_NoneWithoutCommand ==
    Parsed =>
        /\ Stripped(body) = <<>> => command = Null
        /\ CommandLines(body) = {} => command = Null
        /\ (/\ Cardinality(CommandLines(body)) = 1
            /\ \A k \in CommandLines(body) :
                  Stripped(LinesOf(body)[k]) = DONKEYOPS)
           => command = Null

\* a body with a line that mentions /donkeyops after other words, and none
\* that starts with it, was parsed
C13_Witness ==
    /\ Parsed
    /\ CommandLines(body) = {}
    /\ includes(body, DONKEYOPS)
    /\ command = Null

\* a body whose only command line is the lone token was parsed
C13_WitnessLoneToken ==
    /\ Parsed
    /\ Len(LinesOf(body)) = 2
    /\ Cardinality(CommandLines(body)) = 1
    /\ \A k \in CommandLines(body) : Stripped(LinesOf(body)[k]) = DONKEYOPS
    /\ command = Null

\* a blank body of several lines was parsed
C13_WitnessBlank ==
    /\ Parsed
    /\ Len(body) > 1
    /\ Stripped(body) = <<>>
    /\ command = Null

\* the lines of a body that start, once trimmed, with /donkeyops and hold
\* at least two tokens between spaces
FullCommandLines(t) ==
    {k \in CommandLines(t) : Len(SpaceTokens(LinesOf(t)[k])) >= 2}

\* C14 as stated: the first line whose trimmed form starts with /donkeyops
\* decides alone; when it holds only the /donkeyops token the result is
\* none, whatever later lines contain, and when it holds more the result is
\* spelled by its tokens.
C14_FirstCommandLineDecides ==
    (Parsed /\ CommandLines(body) # {}) =>
        LET first == LinesOf(body)[Min(CommandLines(body))]
        IN  /\ Stripped(first) = DONKEYOPS => command = Null
            /\ Len(SpaceTokens(first)) >= 2
                  => command = Spelled(SpaceTokens(first))

\* C14, amended: the result is determined by the first line whose trimmed
\* form starts with /donkeyops and holds at least two tokens; command lines
\* before it that hold a single token are passed over, every other line is
\* ignored, and without such a line the result is none.
C14_FirstFullCommandLineDecides ==
    Parsed =>
        IF FullCommandLines(body) = {}
        THEN command = Null
        ELSE command =
                Spelled(SpaceTokens(LinesOf(body)[Min(FullCommandLines(body))]))

\* a body whose first command line is the lone token and whose second line
\* holds a command was parsed, and the second line's command came out
C14_Witness ==
    /\ Parsed
    /\ Len(LinesOf(body)) = 2
    /\ Stripped(LinesOf(body)[1]) = DONKEYOPS
    /\ FullCommandLines(body) = {2}
    /\ ~command.isNull

\* a body with two full command lines was parsed
C14_WitnessTwoCommands ==
    /\ Parsed
    /\ FullCommandLines(body) = {1, 2}
    /\ SpaceTokens(LinesOf(body)[1])[2] # SpaceTokens(LinesOf(body)[2])[2]
    /\ command.command = SpaceTokens(LinesOf(body)[1])[2]

\* C15 as stated: the line a command comes from is split at white space of
\* any kind, spaces or tabs, into non-empty tokens; the command name is the
\* token after /donkeyops and the arguments are the remaining tokens in order.
C15_SplitOnAnyWhitespace ==
    (Parsed /\ ~command.isNull) =>
        \E k \in CommandLines(body) :
            /\ Len(WhitespaceTokens(LinesOf(body)[k])) >= 2
            /\ command = Spelled(WhitespaceTokens(LinesOf(body)[k]))

\* C15, amended: the line a command comes from is split at space characters
\* only, runs of any length counting as one separator, into non-empty
\* tokens; the command name is the second token and the arguments are the
\* remaining tokens in order; a tab does not separate tokens and stays
\* inside the token it is written in.
C15_SplitOnSpaces ==
    (Parsed /\ ~command.isNull) =>
        /\ \E k \in CommandLines(body) :
              /\ Len(SpaceTokens(LinesOf(body)[k])) >= 2
              /\ command = Spelled(SpaceTokens(LinesOf(body)[k]))
        /\ \A token \in {command.command} \cup Range(command.args) :
              /\ token # <<>>
              /\ \A i \in 1..Len(token) : token[i] # " "

\* a line with a run of two spaces and a tab between its words was parsed:
\* the tab is inside a token
C15_Witness ==
    /\ Parsed
    /\ ~command.isNull
    /\ Len(LinesOf(body)) = 1
    /\ includes(body, <<" ", " ">>)
    /\ \E token \in {command.command} \cup Range(command.args) :
          includes(token, <<"\t">>)

\* a line with two arguments was parsed
C15_WitnessArgs ==
    /\ Parsed
    /\ ~command.isNull
    /\ Len(command.args) = 2
    /\ command.args[1] # command.args[2]

(***************************************************************************)
(* handleSlashCommands: the dispatcher.                                    *)
(***************************************************************************)
\* the command names of the switch
cmdLabel == <<"l", "a", "b", "e", "l">>
cmdUnlabel == <<"u", "n">> \o cmdLabel
cmdClose == <<"c", "l", "o", "s", "e">>
cmdAssign == <<"a", "s", "s", "i", "g", "n">>
cmdUnassign == <<"u", "n">> \o cmdAssign
cmdApprove == <<"a", "p", "p", "r", "o", "v", "e">>
cmdReview == <<"r", "e", "v", "i", "e", "w">>

\* let commentBody = ''; comment.body if there is one, else issue.body
commentBodyOf(commentText, hasIssue, issueText) ==
    IF commentText # <<>> THEN commentText
    ELSE IF hasIssue /\ issueText # <<>> THEN issueText
    ELSE <<>>

\* String.prototype.replace('@', ''), were it to take away a leading @ only
replaceAt_leadingOnly(s) ==
    IF Len(s) > 0 /\ s[1] = "@" THEN SubSeq(s, 2, Len(s)) ELSE s

\* String.prototype.replace('@', ''): the first @, wherever it is, goes
replaceAt(s) ==
    LET ats == {i \in 1..Len(s) : s[i] = "@"}
    IN  IF ats = {} THEN s
        ELSE SubSeq(s, 1, Min(ats) - 1) \o SubSeq(s, Min(ats) + 1, Len(s))

\* a usage comment that does not say which command it is about
usageComment_generic(c) ==
    [kind |-> "failed",
     text |-> "Failed to execute command. Please check the syntax and try again."]

\* the comments the dispatcher writes
usageComment(c) ==
    [kind |-> "usage",
     text |-> CASE c = cmdLabel ->
                   "Please specify a label. Usage: /donkeyops label <label>"
                [] c = cmdUnlabel ->
                   "Please specify a label. Usage: /donkeyops unlabel <label>"
                [] c = cmdAssign ->
                   "Please specify a reviewer. Usage: /donkeyops assign <reviewer-username>"
                [] c = cmdUnassign ->
                   "Please specify a reviewer. Usage: /donkeyops unassign <reviewer-username>"]

reviewComment(review) ==
    [kind |-> "review", heading |-> "Code Review by DonkeyOps Bot",
     text |-> review]

prOnlyComment ==
    [kind |-> "prOnly",
     text |-> "Code review is only available for pull requests, not issues."]

reviewFailedComment ==
    [kind |-> "reviewFailed",
     text |-> "Failed to perform code review. Please check if the Qwen2.5-coder service is running locally on port 11434."]

\* the commands the help text lists
availableCommands ==
    <<cmdLabel, cmdUnlabel, cmdClose, cmdAssign, cmdUnassign, cmdApprove,
      cmdReview>>

unknownComment(c) ==
    [kind |-> "unknown", command |-> c, listed |-> availableCommands]

failedComment ==
    [kind |-> "failed",
     text |-> "Failed to execute command. Please check the syntax and try again."]

\* the diff of the pull request and the answer of the model, as texts
PRDiff == "diff"
LLMResponse == "response"

\* the prompt of performCodeReview
reviewPrompt(prTitle, diff) ==
    [instructions |-> "Review this code change", title |-> prTitle,
     diff |-> diff]

\* variant: the switch compares the command name ignoring case
dispatch_ignoringCase(c, hasIssue) ==
    CASE toLowerCase(c.command) \in {cmdLabel, cmdUnlabel, cmdAssign, cmdUnassign}
            /\ Len(c.args) = 0 -> "usage"
      [] toLowerCase(c.command) = cmdLabel /\ Len(c.args) > 0 ->
            IF hasIssue THEN "issues.addLabels" ELSE "failed"
      [] toLowerCase(c.command) = cmdUnlabel /\ Len(c.args) > 0 ->
            IF hasIssue THEN "issues.removeLabel" ELSE "failed"
      [] toLowerCase(c.command) = cmdClose ->
            IF hasIssue THEN "issues.update" ELSE "failed"
      [] toLowerCase(c.command) = cmdAssign /\ Len(c.args) > 0 ->
            IF hasIssue THEN "issues.addAssignees" ELSE "failed"
      [] toLowerCase(c.command) = cmdUnassign /\ Len(c.args) > 0 ->
            IF hasIssue THEN "issues.removeAssignees" ELSE "failed"
      [] toLowerCase(c.command) = cmdApprove ->
            IF hasIssue THEN "pulls.createReview" ELSE "failed"
      [] toLowerCase(c.command) = cmdReview ->
            IF hasIssue THEN "pulls.get" ELSE "prOnly"
      [] OTHER -> "unknown"

\* where the switch goes first: a usage comment, the command's remote call,
\* or a catch block when reading issue.number raises
dispatch(c, hasIssue) ==
    CASE c.command \in {cmdLabel, cmdUnlabel, cmdAssign, cmdUnassign}
            /\ Len(c.args) = 0 -> "usage"
      [] c.command = cmdLabel /\ Len(c.args) > 0 ->
            IF hasIssue THEN "issues.addLabels" ELSE "failed"
      [] c.command = cmdUnlabel /\ Len(c.args) > 0 ->
            IF hasIssue THEN "issues.removeLabel" ELSE "failed"
      [] c.command = cmdClose ->
            IF hasIssue THEN "issues.update" ELSE "failed"
      [] c.command = cmdAssign /\ Len(c.args) > 0 ->
            IF hasIssue THEN "issues.addAssignees" ELSE "failed"
      [] c.command = cmdUnassign /\ Len(c.args) > 0 ->
            IF hasIssue THEN "issues.removeAssignees" ELSE "failed"
      [] c.command = cmdApprove ->
            IF hasIssue THEN "pulls.createReview" ELSE "failed"
      [] c.command = cmdReview ->
            IF hasIssue THEN "pulls.get" ELSE "prOnly"
      [] OTHER -> "unknown"

\* the comment bodies delivered: a command word with or without an argument,
\* a remark, and the empty body
SummaryWord == <<"s", "u", "m", "m", "a", "r", "y">>
AskWord == <<"a", "s", "k">>
FooWord == <<"f", "o", "o">>

LabelUpperWord == <<"L", "A", "B", "E", "L">>
CloseCapitalWord == <<"C", "l", "o", "s", "e">>

CommandWords ==
    {cmdLabel, cmdUnlabel, cmdClose, cmdAssign, cmdUnassign, cmdApprove,
     cmdReview, SummaryWord, AskWord, FooWord, LabelUpperWord,
     CloseCapitalWord}

ArgWords ==
    {<<>>, <<"b", "u", "g">>, <<"@", "b", "o", "b">>, <<"a", "@", "b">>}

SlashBodies ==
    {DONKEYOPS \o <<" ">> \o c \o (IF a = <<>> THEN <<>> ELSE <<" ">> \o a) :
        c \in CommandWords, a \in ArgWords}
    \cup {<<>>, <<"h", "i">>}

\* issue.body, read when the comment has no body
IssueBodies == {<<>>, DONKEYOPS \o <<" ">> \o cmdClose}

\* the steps of the review case that run inside its inner try
InnerTrySteps == {"pulls.get", "getPRDiff", "callCodellama", "postReview"}

\* a catch that swallows the error of a command's remote operation
catchOf_swallowed(step) ==
    IF step \in InnerTrySteps THEN "prOnly"
    ELSE IF step = "prOnly" THEN "reviewFailed"
    ELSE IF step \in {"usage", "unknown", "reviewFailed"} THEN "failed"
    ELSE "done"

\* variant: the step that failed is tried again
catchOf_retry(step) == step

\* where an error raised at a step is caught: catch (prError) for the inner
\* try, catch (error) of the review case for catch (prError) itself, and
\* the catch of the whole switch for everything else
catchOf(step) ==
    IF step \in InnerTrySteps THEN "prOnly"
    ELSE IF step = "prOnly" THEN "reviewFailed"
    ELSE "failed"

\* what every step of the dispatcher leaves alone
SlashFrame ==
    UNCHANGED <<pureVars, ruleVars, title, detectedLabels, repoFile,
                prCommits, run, handler, invalidCommits, newLabels, applied,
                body, command, tasks>>

Goto(step) ==
    /\ pc' = step
    /\ UNCHANGED status

\* await context.octokit.issues.createComment
PostComment(text, ok) ==
    /\ calls' = Append(calls,
           [Call("issues.createComment", ok) EXCEPT !.body = text])
    /\ comments' = IF ok THEN Append(comments, text) ELSE comments

\* app.on("issue_comment.created") and
\* app.on("pull_request_review_comment.created"): the body is read, parsed
\* and the switch entered; without a command the handler returns
StartSlash ==
    /\ pc \in {"idle", "done"}
    /\ run < MaxDeliveries
    /\ \E event \in {"issue_comment.created",
                     "pull_request_review_comment.created"},
          commentText \in SlashBodies, issueText \in IssueBodies :
          LET hasIssue == event = "issue_comment.created"
              text == commentBodyOf(commentText, hasIssue, issueText)
              parsed == parseSlashCommand(text)
          IN  /\ ~hasIssue => issue.isPR
              /\ issue' = [issue EXCEPT !.inPayload = hasIssue]
              /\ body' = text
              /\ command' = parsed
              /\ run' = run + 1
              /\ handler' = "handleSlashCommands"
              /\ IF parsed.isNull
                 THEN Finish("returned")
                 ELSE pc' = dispatch(parsed, hasIssue) /\ status' = "running"
    /\ UNCHANGED <<pureVars, ruleVars, title, detectedLabels, remoteVars,
                   invalidCommits, newLabels, historyVars, taskVars>>

\* the usage comment of label, unlabel, assign, unassign, then return
SlashUsage ==
    /\ handler = "handleSlashCommands"
    /\ pc = "usage"
    /\ \E ok \in BOOLEAN :
          /\ PostComment(usageComment(command.command), ok)
          /\ IF ok THEN Finish("returned") ELSE Goto(catchOf(pc))
    /\ UNCHANGED <<prLabels, issue>>
    /\ SlashFrame

\* case 'label': await issues.addLabels
SlashAddLabels ==
    /\ handler = "handleSlashCommands"
    /\ pc = "issues.addLabels"
    /\ \E ok \in BOOLEAN :
          LET label == command.args[1]
          IN  /\ calls' = Append(calls,
                     [Call("issues.addLabels", ok) EXCEPT !.labels = <<label>>])
              /\ prLabels' = IF ok THEN prLabels \cup {label} ELSE prLabels
              /\ IF ok THEN Finish("returned") ELSE Goto(catchOf(pc))
    /\ UNCHANGED <<comments, issue>>
    /\ SlashFrame

\* case 'unlabel': await issues.removeLabel
SlashRemoveLabel ==
    /\ handler = "handleSlashCommands"
    /\ pc = "issues.removeLabel"
    /\ \E ok \in BOOLEAN :
          LET labelToRemove == command.args[1]
          IN  /\ calls' = Append(calls,
                     [Call("issues.removeLabel", ok) EXCEPT !.arg = labelToRemove])
              /\ prLabels' = IF ok THEN prLabels \ {labelToRemove} ELSE prLabels
              /\ IF ok THEN Finish("returned") ELSE Goto(catchOf(pc))
    /\ UNCHANGED <<comments, issue>>
    /\ SlashFrame

\* case 'close': await issues.update
SlashUpdate ==
    /\ handler = "handleSlashCommands"
    /\ pc = "issues.update"
    /\ \E ok \in BOOLEAN :
          /\ calls' = Append(calls,
                 [Call("issues.update", ok) EXCEPT !.arg = "closed"])
          /\ issue' = IF ok THEN [issue EXCEPT !.state = "closed"] ELSE issue
          /\ IF ok THEN Finish("returned") ELSE Goto(catchOf(pc))
    /\ UNCHANGED <<comments, prLabels>>
    /\ SlashFrame

\* case 'assign': await issues.addAssignees
SlashAddAssignees ==
    /\ handler = "handleSlashCommands"
    /\ pc = "issues.addAssignees"
    /\ \E ok \in BOOLEAN :
          LET reviewer == replaceAt(command.args[1])
          IN  /\ calls' = Append(calls,
                     [Call("issues.addAssignees", ok) EXCEPT !.arg = reviewer])
              /\ issue' = IF ok
                          THEN [issue EXCEPT !.assignees = @ \cup {reviewer}]
                          ELSE issue
              /\ IF ok THEN Finish("returned") ELSE Goto(catchOf(pc))
    /\ UNCHANGED <<comments, prLabels>>
    /\ SlashFrame

\* case 'unassign': await issues.removeAssignees
SlashRemoveAssignees ==
    /\ handler = "handleSlashCommands"
    /\ pc = "issues.removeAssignees"
    /\ \E ok \in BOOLEAN :
          LET reviewerToRemove == replaceAt(command.args[1])
          IN  /\ calls' = Append(calls,
                     [Call("issues.removeAssignees", ok)
                         EXCEPT !.arg = reviewerToRemove])
              /\ issue' = IF ok
                          THEN [issue EXCEPT
                                   !.assignees = @ \ {reviewerToRemove}]
                          ELSE issue
              /\ IF ok THEN Finish("returned") ELSE Goto(catchOf(pc))
    /\ UNCHANGED <<comments, prLabels>>
    /\ SlashFrame

\* case 'approve': await pulls.createReview
SlashCreateReview ==
    /\ handler = "handleSlashCommands"
    /\ pc = "pulls.createReview"
    /\ \E ok \in BOOLEAN :
          /\ ok => issue.isPR
          /\ calls' = Append(calls,
                 [Call("pulls.createReview", ok) EXCEPT !.arg = "APPROVE"])
          /\ issue' = IF ok THEN [issue EXCEPT !.approvals = @ + 1] ELSE issue
          /\ IF ok THEN Finish("returned") ELSE Goto(catchOf(pc))
    /\ UNCHANGED <<comments, prLabels>>
    /\ SlashFrame

\* case 'review': await pulls.get, which answers for a pull request only; a
\* failure lands in catch (prError)
SlashPullsGet ==
    /\ handler = "handleSlashCommands"
    /\ pc = "pulls.get"
    /\ \E ok \in BOOLEAN :
          /\ ok => issue.isPR
          /\ calls' = Append(calls,
                 [Call("pulls.get", ok) EXCEPT !.arg = "mediaType: default"])
          /\ Goto(IF ok THEN "getPRDiff" ELSE catchOf(pc))
    /\ UNCHANGED <<comments, prLabels, issue>>
    /\ SlashFrame

\* performCodeReview: await getPRDiff, rethrown up to catch (prError)
SlashGetPRDiff ==
    /\ handler = "handleSlashCommands"
    /\ pc = "getPRDiff"
    /\ \E ok \in BOOLEAN :
          /\ calls' = Append(calls,
                 [Call("pulls.get", ok) EXCEPT !.arg = "mediaType: diff"])
          /\ Goto(IF ok THEN "callCodellama" ELSE catchOf(pc))
    /\ UNCHANGED <<comments, prLabels, issue>>
    /\ SlashFrame

\* performCodeReview: await callCodellama; a network error and a status
\* that is not ok both raise, rethrown up to catch (prError)
SlashCallCodellama ==
    /\ handler = "handleSlashCommands"
    /\ pc = "callCodellama"
    /\ \E outcome \in {"ok", "network error", "HTTP error"} :
          /\ calls' = Append(calls,
                 [Call("fetch", outcome = "ok")
                     EXCEPT !.arg = reviewPrompt(title, PRDiff),
                            !.result = {outcome}])
          /\ Goto(IF outcome = "ok" THEN "postReview" ELSE catchOf(pc))
    /\ UNCHANGED <<comments, prLabels, issue>>
    /\ SlashFrame

\* the review is posted, still inside the inner try
SlashPostReview ==
    /\ handler = "handleSlashCommands"
    /\ pc = "postReview"
    /\ \E ok \in BOOLEAN :
          /\ PostComment(reviewComment(LLMResponse), ok)
          /\ IF ok THEN Finish("returned") ELSE Goto(catchOf(pc))
    /\ UNCHANGED <<prLabels, issue>>
    /\ SlashFrame

\* catch (prError): the comment for issues, then return
SlashPROnly ==
    /\ handler = "handleSlashCommands"
    /\ pc = "prOnly"
    /\ \E ok \in BOOLEAN :
          /\ PostComment(prOnlyComment, ok)
          /\ IF ok THEN Finish("returned") ELSE Goto(catchOf(pc))
    /\ UNCHANGED <<prLabels, issue>>
    /\ SlashFrame

\* catch (error) of the review case
SlashReviewFailed ==
    /\ handler = "handleSlashCommands"
    /\ pc = "reviewFailed"
    /\ \E ok \in BOOLEAN :
          /\ PostComment(reviewFailedComment, ok)
          /\ IF ok THEN Finish("returned") ELSE Goto(catchOf(pc))
    /\ UNCHANGED <<prLabels, issue>>
    /\ SlashFrame

\* default: the unknown-command comment
SlashUnknown ==
    /\ handler = "handleSlashCommands"
    /\ pc = "unknown"
    /\ \E ok \in BOOLEAN :
          /\ PostComment(unknownComment(command.command), ok)
          /\ IF ok THEN Finish("returned") ELSE Goto(catchOf(pc))
    /\ UNCHANGED <<prLabels, issue>>
    /\ SlashFrame

\* the catch of the whole switch; a failure of its own comment escapes
SlashFailed ==
    /\ handler = "handleSlashCommands"
    /\ pc = "failed"
    /\ \E ok \in BOOLEAN :
          /\ PostComment(failedComment, ok)
          /\ Finish(IF ok THEN "returned" ELSE "threw")
    /\ UNCHANGED <<prLabels, issue>>
    /\ SlashFrame

InitSlash ==
    /\ called = "none"
    /\ commitMessage = <<>>
    /\ validation = NoValidation
    /\ typeEnum = <<>>
    /\ validComponents = <<>>
    /\ commitFormat = ""
    /\ detectedLabels = <<>>
    /\ title \in PRTitles
    /\ repoFile = NoFile
    /\ prCommits = <<>>
    /\ prLabels \in {{}, {<<"b", "u", "g">>}}
    /\ comments = <<>>
    /\ run = 0
    /\ handler = "none"
    /\ pc = "idle"
    /\ status = "none"
    /\ invalidCommits = <<>>
    /\ newLabels = <<>>
    /\ calls = <<>>
    /\ applied = <<>>
    /\ body = <<>>
    /\ command = Null
    /\ issue \in {Issue(TRUE, TRUE), Issue(TRUE, FALSE)}
    /\ tasks = NoTasks

NextSlash ==
    \/ StartSlash
    \/ SlashUsage
    \/ SlashAddLabels
    \/ SlashRemoveLabel
    \/ SlashUpdate
    \/ SlashAddAssignees
    \/ SlashRemoveAssignees
    \/ SlashCreateReview
    \/ SlashPullsGet
    \/ SlashGetPRDiff
    \/ SlashCallCodellama
    \/ SlashPostReview
    \/ SlashPROnly
    \/ SlashReviewFailed
    \/ SlashUnknown
    \/ SlashFailed

SpecSlash == InitSlash /\ [][NextSlash]_vars

(***************************************************************************)
(* Properties of the dispatcher, stated on the calls of the delivery at    *)
(* hand.                                                                   *)
(***************************************************************************)
\* a command is being, or has been, dispatched
Dispatched == handler = "handleSlashCommands" /\ ~command.isNull

\* the delivery at hand is over
Over == handler = "handleSlashCommands" /\ pc = "done"

\* the calls of the delivery at hand, as places of the log
Mine == {i \in 1..Len(calls) : calls[i].run = run}

\* its comment-creation calls with a body of the given kind
CommentsOfKind(kind) ==
    {i \in Comments(run) : calls[i].body.kind = kind}

PrimaryOps ==
    {"issues.addLabels", "issues.removeLabel", "issues.addAssignees",
     "issues.removeAssignees"}

\* C16: for label, unlabel, assign and unassign given with zero arguments,
\* the dispatcher posts the command's usage comment first of all and issues
\* no add-label, remove-label, add-assignee or remove-assignee call.
C16_UsageWithoutArguments ==
    (/\ Dispatched
     /\ command.command \in {cmdLabel, cmdUnlabel, cmdAssign, cmdUnassign}
     /\ Len(command.args) = 0)
    => /\ \A i \in Mine : calls[i].op \notin PrimaryOps
       /\ Over => Mine # {}
       /\ Mine # {} =>
             /\ calls[Min(Mine)].op = "issues.createComment"
             /\ calls[Min(Mine)].body.kind = "usage"
       /\ \A c \in {cmdLabel, cmdUnlabel, cmdAssign, cmdUnassign} \ {command.command} :
             Mine # {} => calls[Min(Mine)].body.text # usageComment(c).text

\* assign without an argument was delivered and its usage comment created
C16_Witness ==
    /\ Dispatched
    /\ Over
    /\ command.command = cmdAssign
    /\ Len(command.args) = 0
    /\ Len(comments) = 1
    /\ comments[1].kind = "usage"

\* the user name a command argument stands for: the argument without its
\* leading @, if it has one
WithoutLeadingAt(a) == IF a[1] = "@" THEN SubSeq(a, 2, Len(a)) ELSE a

C18_PROnlyOnIssue ==
    (/\ Dispatched
     /\ command.command \in {cmdReview, SummaryWord, AskWord}
     /\ issue.inPayload
     /\ ~issue.isPR)
    => /\ CallsOf(run, "fetch") = {}
       /\ \A i \in CallsOf(run, "pulls.get") :
             calls[i].arg # "mediaType: diff"
       /\ Over => CommentsOfKind("prOnly") # {}

\* the PR-details lookup of the delivery at hand answered
LookupSucceeded ==
    \E i \in CallsOf(run, "pulls.get") :
        calls[i].ok /\ calls[i].arg = "mediaType: default"

\* C19: when review is dispatched on a real PR and the LLM request fails
\* with a network error or a status that is not 2xx, the dispatcher posts
\* the "Failed to perform code review" comment that names port 11434.
C19_ReviewFailureComment ==
    (/\ Dispatched
     /\ Over
     /\ command.command = cmdReview
     /\ LookupSucceeded
     /\ \E i \in CallsOf(run, "fetch") : ~calls[i].ok)
    => CommentsOfKind("reviewFailed") # {}

\* the commands the specification recognizes
RecognizedCommands ==
    {cmdLabel, cmdUnlabel, cmdClose, cmdAssign, cmdUnassign, cmdApprove,
     cmdReview, SummaryWord, AskWord}

\* C20: for every command name outside the recognized set the dispatcher
\* posts one comment that names the unknown command and lists all
\* recognized commands, and performs no other remote effect.
C20_UnknownCommandHelp ==
    (Dispatched /\ Over /\ command.command \notin RecognizedCommands)
    => /\ \A i \in Mine : calls[i].op = "issues.createComment"
       /\ Mine # {}
       /\ calls[Min(Mine)].body.kind = "unknown"
       /\ calls[Min(Mine)].body.command = command.command
       /\ RecognizedCommands \subseteq Range(calls[Min(Mine)].body.listed)

\* the remote operations of label, unlabel, close, assign, unassign, approve
CommandOps ==
    PrimaryOps \cup {"issues.update", "pulls.createReview"}

\* C21: when the primary remote operation of label, unlabel, close, assign,
\* unassign or approve fails, the dispatcher posts the generic "Failed to
\* execute command" comment next; the failure is never silently dropped.
C21_PrimaryFailureReported ==
    (Dispatched /\ Over) =>
        \A i \in Mine :
            (calls[i].op \in CommandOps /\ ~calls[i].ok)
            => /\ i + 1 \in Mine
               /\ calls[i + 1].op = "issues.createComment"
               /\ calls[i + 1].body.kind = "failed"
               /\ calls[i + 1].body.text =
                     "Failed to execute command. Please check the syntax and try again."

\* close was delivered, issues.update failed and the generic comment was
\* created
C21_Witness ==
    /\ Dispatched
    /\ Over
    /\ command.command = cmdClose
    /\ \E i \in CallsOf(run, "issues.update") : ~calls[i].ok
    /\ issue.state = "open"
    /\ Len(comments) = 1
    /\ comments[1].kind = "failed"

\* C22: no error escapes the slash-command event handler: for every command
\* and every combination of success and failure of the remote calls, the
\* failure of the comment-creation call included, handleSlashCommands
\* completes without raising.
C22_NoErrorEscapes ==
    handler = "handleSlashCommands" => status # "threw"

\* the calls of the delivery at hand, in the order they were issued
MineInOrder == [k \in 1..Cardinality(Mine) |-> calls[Nth(Mine, k)]]

\* the delivery at hand is for a pull request and came as an issue comment
OnPullRequest == issue.inPayload /\ issue.isPR

\* the heading of the comment a command answers with
HeadingOf(c) ==
    CASE c = cmdReview -> "Code Review by DonkeyOps Bot"
      [] c = SummaryWord -> "PR Summary"
      [] c = AskWord -> "Question about PR Changes"

\* C26: for each of review, summary and ask with a question, dispatched on
\* a PR with every remote call succeeding, the dispatcher performs in this
\* order, each exactly once, the PR-details lookup, the diff fetch and one
\* LLM request whose prompt embeds the PR title and the diff, and then
\* posts exactly one comment with the command's heading and the response.
C26_ReviewPipeline ==
    (/\ Dispatched
     /\ Over
     /\ OnPullRequest
     /\ \/ command.command \in {cmdReview, SummaryWord}
        \/ command.command = AskWord /\ Len(command.args) > 0
     /\ \A i \in Mine : calls[i].ok)
    => /\ Len(MineInOrder) = 4
       /\ MineInOrder[1].op = "pulls.get"
       /\ MineInOrder[1].arg = "mediaType: default"
       /\ MineInOrder[2].op = "pulls.get"
       /\ MineInOrder[2].arg = "mediaType: diff"
       /\ MineInOrder[3].op = "fetch"
       /\ MineInOrder[3].arg.title = title
       /\ MineInOrder[3].arg.diff = PRDiff
       /\ MineInOrder[4].op = "issues.createComment"
       /\ MineInOrder[4].body.heading = HeadingOf(command.command)
       /\ MineInOrder[4].body.text = LLMResponse

\* the arguments of a command, put together again with single spaces
RECURSIVE Rejoined(_)
Rejoined(args) ==
    IF Len(args) = 0 THEN <<>>
    ELSE IF Len(args) = 1 THEN args[1]
    ELSE args[1] \o <<" ">> \o Rejoined(Tail(args))

\* C27: ask on a PR with zero arguments posts the "Please provide a
\* question" comment after the PR-details lookup and performs no diff fetch
\* and no LLM call; with arguments, the question put to the LLM is the
\* arguments rejoined with single spaces.
C27_AskQuestion ==
    (/\ Dispatched
     /\ Over
     /\ OnPullRequest
     /\ command.command = AskWord
     /\ \A i \in Mine : calls[i].ok)
    => IF Len(command.args) = 0
       THEN /\ Len(MineInOrder) = 2
            /\ MineInOrder[1].op = "pulls.get"
            /\ MineInOrder[1].arg = "mediaType: default"
            /\ MineInOrder[2].op = "issues.createComment"
            /\ MineInOrder[2].body.kind = "provideQuestion"
       ELSE \E i \in CallsOf(run, "fetch") :
               /\ Has(calls[i].arg, "question")
               /\ calls[i].arg.question = Rejoined(command.args)

\* the PR-details lookup of the delivery at hand failed
LookupFailed ==
    \E i \in CallsOf(run, "pulls.get") :
        ~calls[i].ok /\ calls[i].arg = "mediaType: default"

\* C30: the PR-details probe alone decides whether the target is a PR: the
\* "only available for pull requests" comment is posted only when the
\* lookup failed, never when it succeeded and a later step failed.
C30_ProbeAloneDecides ==
    (Dispatched /\ issue.inPayload /\ CommentsOfKind("prOnly") # {})
    => LookupFailed

(***************************************************************************)
(* Properties of the configuration the handlers resolve.                   *)
(***************************************************************************)
\* the commit check is past its configuration step
Checking == handler = "checkCommitsInPR" /\ pc # "getConfig"

\* a file that gives no mapping: missing, rejected by the parser, without
\* content, or a document that is a plain value
GivesNoMapping(file) ==
    \/ file.kind \in {"absent", "malformed", "empty"}
    \/ file.kind = "yaml" /\ file.doc.kind # "object"

\* C23: the config resolver never raises and always yields a usable
\* configuration: when .donkeyops.yml is missing, unparsable, empty or not
\* a mapping, the commit check runs with the built-in defaults and does not
\* raise.
C23_ResolverNeverRaises ==
    (Checking /\ GivesNoMapping(repoFile)) =>
        /\ status # "threw"
        /\ typeEnum = DEFAULT_TYPE_ENUM
        /\ validComponents = DEFAULT_VALID_COMPONENTS
        /\ commitFormat = DEFAULT_COMMIT_FORMAT
        /\ pc = "done" => CallsOf(run, "pulls.listCommits") # {}

\* the commit check read the file of the repository and it is a mapping
ReadMapping ==
    /\ Checking
    /\ repoFile.kind = "yaml"
    /\ repoFile.doc.kind = "object"
    /\ \E i \in CallsOf(run, "repos.getContent") : calls[i].ok

\* the value of a field of conventional_commits as the file gives it, or
\* the default when the file does not have the field
GivenOrDefault(field, default) ==
    IF /\ "conventional_commits" \in DOMAIN repoFile.doc
       /\ field \in DOMAIN repoFile.doc.conventional_commits
    THEN repoFile.doc.conventional_commits[field]
    ELSE default

\* C24: each of type_enum, valid_components and commit_format and the
\* enabled flag takes its built-in default if and only if the field is
\* absent from the parsed config; a field that is present but empty, an
\* empty list or an empty format string, is used as given.
C24_DefaultOnlyWhenAbsent ==
    ReadMapping =>
        /\ typeEnum = GivenOrDefault("type_enum", DEFAULT_TYPE_ENUM)
        /\ validComponents =
              GivenOrDefault("valid_components", DEFAULT_VALID_COMPONENTS)
        /\ commitFormat = GivenOrDefault("commit_format", DEFAULT_COMMIT_FORMAT)
        /\ pc = "done" =>
              (CallsOf(run, "pulls.listCommits") # {}) =
                  GivenOrDefault("enabled", TRUE)

(***************************************************************************)
(* Deliveries handled at the same time: app.on registers checkCommitsInPR  *)
(* and autoLabelPR as separate listeners, and the framework may have       *)
(* several deliveries in flight.  Each delivery is a task with its own     *)
(* locals; the tasks interleave at their awaits.                           *)
(***************************************************************************)
\* a delivery that has not started
Task(h) ==
    [handler |-> h, pc |-> "idle", status |-> "none",
     typeEnum |-> <<>>, validComponents |-> <<>>, commitFormat |-> "",
     detectedLabels |-> <<>>, invalidCommits |-> <<>>, newLabels |-> <<>>]

\* pull_request.opened runs both handlers; a second delivery for the same
\* pull request (edited, or opened again) runs autoLabelPR once more
TaskLists ==
    { <<Task("checkCommitsInPR"), Task("autoLabelPR")>>,
      <<Task("autoLabelPR"), Task("autoLabelPR")>> }

\* the commits of the pull request the deliveries are about
OpenedCommitLists == { <<CommitFixCore, CommitOops>>, <<CommitWipApi>> }

\* a call issued by task t
TaskCall(t, op, ok) == [Call(op, ok) EXCEPT !.run = t]

\* task t ends
TaskEnds(t, outcome, locals) ==
    tasks' = [tasks EXCEPT ![t] = [locals EXCEPT !.pc = "done",
                                                 !.status = outcome]]

\* task t goes on to its next await
TaskGoes(t, step, locals) ==
    tasks' = [tasks EXCEPT ![t] = [locals EXCEPT !.pc = step]]

\* what no step of a task touches
TaskFrame ==
    UNCHANGED <<pureVars, slashVars, ruleVars, title, detectedLabels,
                repoFile, prCommits, handlerVars>>

\* the framework calls the listener
TaskDeliver ==
    /\ \E t \in 1..Len(tasks) :
          /\ tasks[t].pc = "idle"
          /\ tasks' = [tasks EXCEPT ![t].pc = "getConfig",
                                    ![t].status = "running"]
    /\ UNCHANGED <<prLabels, comments, calls, applied>>
    /\ TaskFrame

\* checkCommitsInPR: await getDonkeyOpsConfig, the rule set, the flag
TaskCheckGetConfig ==
    /\ \E t \in 1..Len(tasks), ok \in BOOLEAN :
          LET answered == ok /\ repoFile.kind # "absent"
              config   == getDonkeyOpsConfig(repoFile, ok)
              throws   == config.kind = "undefined"
              locals   == IF throws THEN tasks[t]
                          ELSE [tasks[t] EXCEPT
                                   !.typeEnum = typeEnumOf(config),
                                   !.validComponents = validComponentsOf(config),
                                   !.commitFormat = commitFormatOf(config)]
          IN  /\ tasks[t].handler = "checkCommitsInPR"
              /\ tasks[t].pc = "getConfig"
              /\ calls' = Append(calls, TaskCall(t, "repos.getContent", answered))
              /\ IF throws THEN TaskEnds(t, "threw", locals)
                 ELSE IF ~commitCheckEnabled(config)
                 THEN TaskEnds(t, "returned", locals)
                 ELSE TaskGoes(t, "listCommits", locals)
    /\ UNCHANGED <<prLabels, comments, applied>>
    /\ TaskFrame

\* checkCommitsInPR: await pulls.listCommits, the validation of each commit
TaskCheckListCommits ==
    /\ \E t \in 1..Len(tasks), ok \in BOOLEAN :
          LET invalid == IF ok
                         THEN collectInvalidCommits(prCommits,
                                  tasks[t].typeEnum, tasks[t].validComponents,
                                  tasks[t].commitFormat)
                         ELSE <<>>
              locals == [tasks[t] EXCEPT !.invalidCommits = invalid]
          IN  /\ tasks[t].handler = "checkCommitsInPR"
              /\ tasks[t].pc = "listCommits"
              /\ calls' = Append(calls, TaskCall(t, "pulls.listCommits", ok))
              /\ IF ok /\ shouldComment(invalid)
                 THEN TaskGoes(t, "createComment", locals)
                 ELSE TaskEnds(t, "returned", locals)
    /\ UNCHANGED <<prLabels, comments, applied>>
    /\ TaskFrame

\* checkCommitsInPR: await issues.createComment
TaskCreateComment ==
    /\ \E t \in 1..Len(tasks), ok \in BOOLEAN :
          LET text == commentBody(tasks[t].invalidCommits)
          IN  /\ tasks[t].handler = "checkCommitsInPR"
              /\ tasks[t].pc = "createComment"
              /\ calls' = Append(calls,
                     [TaskCall(t, "issues.createComment", ok)
                         EXCEPT !.body = text])
              /\ comments' = IF ok THEN Append(comments, text) ELSE comments
              /\ TaskEnds(t, "returned", tasks[t])
    /\ UNCHANGED <<prLabels, applied>>
    /\ TaskFrame

\* applyLabelsToPR is entered by task t
TaskApplyEntry(t, labels, locals) ==
    /\ applied' = Append(applied, [run |-> t, labels |-> labels])
    /\ IF nothingToApply(labels)
       THEN TaskEnds(t, "returned", locals)
       ELSE TaskGoes(t, "listLabels", locals)

\* autoLabelPR: await getDonkeyOpsConfig, then the title detection
TaskLabelGetConfig ==
    /\ \E t \in 1..Len(tasks), ok \in BOOLEAN :
          LET answered == ok /\ repoFile.kind # "absent"
              config   == getDonkeyOpsConfig(repoFile, ok)
              throws   == config.kind = "undefined"
              enabled  == ~throws /\ prLabelingEnabled(config)
              vc       == IF enabled THEN validComponentsOf(config) ELSE <<>>
              detected == IF enabled THEN detectLabelsFromTitle(title, vc)
                          ELSE <<>>
              locals   == [tasks[t] EXCEPT !.validComponents = vc,
                                           !.detectedLabels = detected]
          IN  /\ tasks[t].handler = "autoLabelPR"
              /\ tasks[t].pc = "getConfig"
              /\ calls' = Append(calls, TaskCall(t, "repos.getContent", answered))
              /\ IF throws
                 THEN TaskEnds(t, "threw", locals) /\ UNCHANGED applied
                 ELSE IF ~enabled
                 THEN TaskEnds(t, "returned", locals) /\ UNCHANGED applied
                 ELSE IF needsCommitFallback(detected)
                 THEN TaskGoes(t, "listCommits", locals) /\ UNCHANGED applied
                 ELSE TaskApplyEntry(t, detected, locals)
    /\ UNCHANGED <<prLabels, comments>>
    /\ TaskFrame

\* autoLabelPR: await pulls.listCommits, then the components of the commits
TaskLabelListCommits ==
    /\ \E t \in 1..Len(tasks), ok \in BOOLEAN :
          LET detected == IF ok
                          THEN commitComponents(prCommits,
                                                tasks[t].validComponents)
                          ELSE <<>>
              locals == [tasks[t] EXCEPT !.detectedLabels = detected]
          IN  /\ tasks[t].handler = "autoLabelPR"
              /\ tasks[t].pc = "listCommits"
              /\ calls' = Append(calls, TaskCall(t, "pulls.listCommits", ok))
              /\ TaskApplyEntry(t, detected, locals)
    /\ UNCHANGED <<prLabels, comments>>
    /\ TaskFrame

\* applyLabelsToPR: await issues.listLabelsOnIssue, then the filter
TaskListLabels ==
    /\ \E t \in 1..Len(tasks), ok \in BOOLEAN :
          LET fresh == IF ok
                       THEN filterNewLabels(tasks[t].detectedLabels, prLabels)
                       ELSE <<>>
              locals == [tasks[t] EXCEPT !.newLabels = fresh]
          IN  /\ tasks[t].pc = "listLabels"
              /\ calls' = Append(calls,
                     [TaskCall(t, "issues.listLabelsOnIssue", ok) EXCEPT
                         !.result = IF ok THEN prLabels ELSE {}])
              /\ IF ok /\ shouldAddLabels(fresh)
                 THEN TaskGoes(t, "addLabels", locals)
                 ELSE TaskEnds(t, applyLabelsCatch(ok), locals)
    /\ UNCHANGED <<prLabels, comments, applied>>
    /\ TaskFrame

\* applyLabelsToPR: await issues.addLabels
TaskAddLabels ==
    /\ \E t \in 1..Len(tasks), ok \in BOOLEAN :
          /\ tasks[t].pc = "addLabels"
          /\ calls' = Append(calls,
                 [TaskCall(t, "issues.addLabels", ok)
                     EXCEPT !.labels = tasks[t].newLabels])
          /\ prLabels' = IF ok THEN prLabels \cup Range(tasks[t].newLabels)
                         ELSE prLabels
          /\ TaskEnds(t, applyLabelsCatch(ok), tasks[t])
    /\ UNCHANGED <<comments, applied>>
    /\ TaskFrame

InitOpened ==
    /\ called = "none"
    /\ commitMessage = <<>>
    /\ validation = NoValidation
    /\ typeEnum = <<>>
    /\ validComponents = <<>>
    /\ commitFormat = ""
    /\ detectedLabels = <<>>
    /\ title \in PRTitles
    /\ repoFile \in RepoFiles
    /\ prCommits \in OpenedCommitLists
    /\ prLabels \in InitialLabels
    /\ comments = <<>>
    /\ run = 0
    /\ handler = "none"
    /\ pc = "idle"
    /\ status = "none"
    /\ invalidCommits = <<>>
    /\ newLabels = <<>>
    /\ calls = <<>>
    /\ applied = <<>>
    /\ tasks \in TaskLists
    /\ NoComment

NextOpened ==
    \/ TaskDeliver
    \/ TaskCheckGetConfig
    \/ TaskCheckListCommits
    \/ TaskCreateComment
    \/ TaskLabelGetConfig
    \/ TaskLabelListCommits
    \/ TaskListLabels
    \/ TaskAddLabels

SpecOpened == InitOpened /\ [][NextOpened]_vars

(***************************************************************************)
(* Properties of deliveries handled at the same time.                      *)
(***************************************************************************)
\* the tasks that run handler h
TasksOf(h) == {t \in 1..Len(tasks) : tasks[t].handler = h}

\* repos.getContent answered task t with the file
Fetched(t) == \E i \in CallsOf(t, "repos.getContent") : calls[i].ok

\* task t was answered with a document that sets enabled: false in section
GivenFalse(t, section) ==
    /\ Fetched(t)
    /\ repoFile.kind = "yaml"
    /\ Has(repoFile.doc, section)
    /\ Has(repoFile.doc[section], "enabled")
    /\ repoFile.doc[section].enabled = FALSE

\* task t got past getDonkeyOpsConfig and the reading of the rule set
Resolved(t) ==
    /\ CallsOf(t, "repos.getContent") # {}
    /\ ~(Fetched(t) /\ repoFile.kind = "empty")

\* the applier invocations of task t
AppliedBy(t) == {k \in 1..Len(applied) : applied[k].run = t}

\* C25: each handler is stopped by its own flag only, and only when the flag
\* is given as false: with conventional_commits.enabled = false the commit
\* check lists no commits and posts no comment, with pr_labeling.enabled =
\* false the labeling handler lists no commits, reads no labels and adds none;
\* a handler whose flag is not given as false goes on (the commit check lists
\* the commits, the labeling handler reaches the applier), whatever the flag
\* of the other one.
C25_FlagsIndependentDefaultTrue ==
    /\ \A t \in TasksOf("checkCommitsInPR") :
          IF GivenFalse(t, "conventional_commits")
          THEN /\ CallsOf(t, "pulls.listCommits") = {}
               /\ CallsOf(t, "issues.createComment") = {}
               /\ comments = <<>>
          ELSE (Resolved(t) /\ tasks[t].pc = "done") =>
                   Cardinality(CallsOf(t, "pulls.listCommits")) = 1
    /\ \A t \in TasksOf("autoLabelPR") :
          IF GivenFalse(t, "pr_labeling")
          THEN /\ CallsOf(t, "pulls.listCommits") = {}
               /\ CallsOf(t, "issues.listLabelsOnIssue") = {}
               /\ CallsOf(t, "issues.addLabels") = {}
               /\ AppliedBy(t) = {}
          ELSE (Resolved(t) /\ tasks[t].pc = "done") =>
                   Cardinality(AppliedBy(t)) = 1

\* C25 witness: the commit check was switched off and stopped, and the
\* labeling handler of the same delivery, answered with the same file, added
\* labels.
C25_Witness ==
    /\ \E t \in TasksOf("checkCommitsInPR") :
          GivenFalse(t, "conventional_commits") /\ tasks[t].pc = "done"
    /\ \E t \in TasksOf("autoLabelPR") :
          /\ Fetched(t)
          /\ tasks[t].pc = "done"
          /\ \E i \in CallsOf(t, "issues.addLabels") : calls[i].ok

\* C25 witness of the other flag: labeling was switched off and stopped, and
\* the commit check of the same delivery, answered with the same file, posted
\* its comment.
C25_WitnessLabelingOff ==
    /\ \E t \in TasksOf("autoLabelPR") :
          GivenFalse(t, "pr_labeling") /\ tasks[t].pc = "done"
    /\ \E t \in TasksOf("checkCommitsInPR") :
          /\ Fetched(t)
          /\ tasks[t].pc = "done"
          /\ \E i \in CallsOf(t, "issues.createComment") : calls[i].ok

\* C25 witness of the default: no file in the repository, and both handlers
\* ran to their last call.
C25_WitnessNoFile ==
    /\ repoFile.kind = "absent"
    /\ \E t \in TasksOf("checkCommitsInPR") :
          tasks[t].pc = "done" /\ CallsOf(t, "issues.createComment") # {}
    /\ \E t \in TasksOf("autoLabelPR") :
          tasks[t].pc = "done" /\ CallsOf(t, "issues.addLabels") # {}

\* both deliveries run the labeling handler and have the same detected labels
SameLabelsTwice ==
    /\ TasksOf("autoLabelPR") = {1, 2}
    /\ tasks[1].detectedLabels = tasks[2].detectedLabels

\* the step issues an add-labels call
AddIssued ==
    /\ Len(calls') = Len(calls) + 1
    /\ calls'[Len(calls')].op = "issues.addLabels"

\* C28: when two deliveries for the same pull request run the applier with
\* the same detected labels, no add-labels call names a label that the pull
\* request carries at the moment the call is issued.
C28_NeverAddsPresentLabel ==
    [][(SameLabelsTwice /\ AddIssued) =>
          Range(calls'[Len(calls')].labels) \cap prLabels = {}]_vars

\* the delivery is pull_request.opened: the commit check and the labeling
\* handler run side by side
Opened == TasksOf("checkCommitsInPR") # {} /\ TasksOf("autoLabelPR") # {}

\* the configuration task t works with: the document when it was answered
\* with one, the empty configuration otherwise
ConfigOf(t) ==
    IF Fetched(t) /\ repoFile.kind = "yaml" THEN repoFile.doc ELSE EmptyConfig

\* the one call op of task t
TheCall(t, op) == calls[CHOOSE i \in CallsOf(t, op) : TRUE]

\* what the commit check t has done follows from the pull request, the
\* repository file and the answers to its own calls
CheckAlone(t) ==
    LET te      == typeEnumOf(ConfigOf(t))
        vc      == validComponentsOf(ConfigOf(t))
        invalid == {i \in 1..Len(prCommits) :
                       ~Conventional(prCommits[i].message, te, vc)}
        listing == CallsOf(t, "pulls.listCommits")
        posting == CallsOf(t, "issues.createComment")
    IN  IF ~Resolved(t)
        THEN tasks[t].status = "threw" /\ listing = {} /\ posting = {}
        ELSE /\ tasks[t].status = "returned"
             /\ IF GivenFalse(t, "conventional_commits")
                THEN listing = {} /\ posting = {}
                ELSE /\ Cardinality(listing) = 1
                     /\ IF TheCall(t, "pulls.listCommits").ok /\ invalid # {}
                        THEN /\ Cardinality(posting) = 1
                             /\ TheCall(t, "issues.createComment").body.found
                                   = Cardinality(invalid)
                        ELSE posting = {}

\* what the labeling handler t has done follows from the pull request, the
\* repository file and the answers to its own calls
LabelAlone(t) ==
    LET vc        == validComponentsOf(ConfigOf(t))
        fromTitle == TitleLabels(title, vc)
        listing   == CallsOf(t, "pulls.listCommits")
        requested == applied[CHOOSE k \in AppliedBy(t) : TRUE].labels
    IN  IF ~Resolved(t)
        THEN /\ tasks[t].status = "threw"
             /\ listing = {} /\ AppliedBy(t) = {}
             /\ Reads(t) = {} /\ Adds(t) = {}
        ELSE /\ tasks[t].status = "returned"
             /\ IF GivenFalse(t, "pr_labeling")
                THEN /\ listing = {} /\ AppliedBy(t) = {}
                     /\ Reads(t) = {} /\ Adds(t) = {}
                ELSE /\ Cardinality(AppliedBy(t)) = 1
                     /\ IF fromTitle # <<>>
                        THEN listing = {} /\ requested = fromTitle
                        ELSE /\ Cardinality(listing) = 1
                             /\ IF TheCall(t, "pulls.listCommits").ok
                                THEN Range(requested) = CommitLabels(prCommits, vc)
                                ELSE requested = <<>>
                     /\ IF requested = <<>>
                        THEN Reads(t) = {} /\ Adds(t) = {}
                        ELSE /\ Cardinality(Reads(t)) = 1
                             /\ LET read == TheCall(t, "issues.listLabelsOnIssue")
                                IN  IF read.ok /\ Missing(requested, read.result) # {}
                                    THEN /\ Cardinality(Adds(t)) = 1
                                         /\ IsDifference(
                                               TheCall(t, "issues.addLabels").labels,
                                               requested, read.result)
                                    ELSE Adds(t) = {}

\* the labels the add-labels calls of task t put on the pull request
Added(t) ==
    UNION {Range(calls[i].labels) : i \in {j \in Adds(t) : calls[j].ok}}

\* the comments the createComment calls of task t posted
Posted(t) ==
    {calls[i].body : i \in {j \in CallsOf(t, "issues.createComment") : calls[j].ok}}

\* C29: on pull_request.opened, under every interleaving, what the commit
\* check has done when it ends (its calls, the comment, its outcome) follows
\* from the pull request, the repository file and the answers to its own
\* calls, and so does what the labeling handler has done; the comments on the
\* pull request are those the commit check posted, and the labels are those
\* the labeling handler read with those it added.
C29_HandlersIndependent ==
    Opened =>
        /\ \A t \in TasksOf("checkCommitsInPR") :
              /\ tasks[t].pc = "done" => CheckAlone(t)
              /\ Range(comments) = Posted(t)
              /\ Len(comments) = Cardinality(Posted(t))
        /\ \A t \in TasksOf("autoLabelPR") :
              /\ tasks[t].pc = "done" => LabelAlone(t)
              /\ \A i \in Reads(t) :
                    calls[i].ok => prLabels = calls[i].result \cup Added(t)

\* C29 witness: the labeling handler ran between the calls of the commit
\* check, one handler had a remote call fail and the other one did its work:
\* the commit check could not list the commits, the labels were added.
C29_Witness ==
    /\ Opened
    /\ \A t \in 1..Len(tasks) : tasks[t].pc = "done"
    /\ \E c \in TasksOf("checkCommitsInPR"), l \in TasksOf("autoLabelPR") :
          /\ Added(l) # {}
          /\ \E i \in CallsOf(c, "repos.getContent"),
                j \in Adds(l),
                k \in CallsOf(c, "pulls.listCommits") :
                   i < j /\ j < k /\ ~calls[k].ok

\* C29 witness of the other order: the labeling handler raised on the empty
\* configuration file before the commit check, which was not answered with
\* the file, posted its comment.
C29_WitnessRaised ==
    /\ Opened
    /\ \A t \in 1..Len(tasks) : tasks[t].pc = "done"
    /\ \E c \in TasksOf("checkCommitsInPR"), l \in TasksOf("autoLabelPR") :
          /\ tasks[l].status = "threw"
          /\ Posted(c) # {}
          /\ \E i \in CallsOf(l, "repos.getContent"),
                j \in CallsOf(c, "repos.getContent") : i < j

(***************************************************************************)
(* Further properties of the commit check and of the label detection.      *)
(***************************************************************************)
\* the place in the comment of the invalid commit listed at place i
SectionOf(i) == 1 + Cardinality({j \in Unconventional : j < i})

\* short is the text cut after its first n characters
IsCutAt(short, full, n) ==
    /\ Len(short) = (IF Len(full) < n THEN Len(full) ELSE n)
    /\ \A k \in 1..Len(short) : short[k] = full[k]

\* C31: the warning comment has one section for each invalid commit and none
\* for a valid one; the sections follow the order of the commit listing, and
\* the section of a commit carries the first 7 characters of its hash, its
\* message in full and the warning the validator gave for that message.
C31_SectionsInListingOrder ==
    (handler = "checkCommitsInPR" /\ Listed(run)) =>
        \A c \in Comments(run) :
            LET entries == calls[c].body.entries
            IN  /\ Len(entries) = Cardinality(Unconventional)
                /\ \A i \in Unconventional :
                      LET e == entries[SectionOf(i)]
                      IN  /\ IsCutAt(e.sha, prCommits[i].sha, 7)
                          /\ e.message = prCommits[i].message
                          /\ e.warning =
                                validateCommitMessage(prCommits[i].message,
                                    typeEnum, validComponents, commitFormat).warning

\* C31 witness: the listing returned two invalid commits with different
\* hashes, messages and warnings, and the comment was issued.
C31_Witness ==
    /\ handler = "checkCommitsInPR"
    /\ Listed(run)
    /\ Comments(run) # {}
    /\ Unconventional = {1, 2}
    /\ prCommits[1].sha # prCommits[2].sha
    /\ prCommits[1].message # prCommits[2].message
    /\ \A c \in Comments(run) :
          calls[c].body.entries[1].warning # calls[c].body.entries[2].warning

\* C31 witness of a valid commit left out: the first commit of the listing is
\* valid, the second is not, and the comment was issued.
C31_WitnessValidLeftOut ==
    /\ handler = "checkCommitsInPR"
    /\ Listed(run)
    /\ Comments(run) # {}
    /\ Unconventional = {2}

\* the labels the commits call for when the message is matched the way the
\* validator matches it, white space around the message set aside
ValidatorMatchLabels(commits, vc) ==
    { Canonical(vc, p.component) :
        p \in { q \in UNION { ShapeParses(commits[i].message) :
                                i \in 1..Len(commits) } :
                InList(vc, q.component) } }

\* C32: when the labels come from the commits, a commit gives its component
\* exactly when the validator's structural match succeeds on its message,
\* white space or a line break around the message included.
C32_DetectorMatchesLikeValidator ==
    FellBack =>
        Range(detectedLabels) = ValidatorMatchLabels(prCommits, validComponents)

\* no item occurs twice in the list
Distinct(list) == Len(list) = Cardinality(Range(list))

C34_FirstTokenIsLiteral ==
    (Parsed /\ ~command.isNull) =>
        LET line == LinesOf(body)[Min(FullCommandLines(body))]
        IN  WhitespaceTokens(line)[1] = DONKEYOPS

\* the command name differs from a recognized name in letter case only
CaseVariant(name) ==
    /\ name \notin RecognizedCommands
    /\ \E c \in RecognizedCommands : InList(<<c>>, name)

\* the remote operations the recognized commands start with
ActionOps == CommandOps \cup {"pulls.get", "fetch"}

\* C35: a command name that differs from a recognized name only in letter
\* case comes out of the parser as it is written in the comment, and the
\* dispatcher answers it with the unknown-command comment; it issues none of
\* the remote operations of the recognized commands.
C35_ExactCaseNames ==
    (Dispatched /\ CaseVariant(command.command)) =>
        /\ command.command =
              SpaceTokens(LinesOf(body)[Min(FullCommandLines(body))])[2]
        /\ \A i \in Mine : calls[i].op \notin ActionOps
        /\ Mine # {} =>
              /\ calls[Min(Mine)].op = "issues.createComment"
              /\ calls[Min(Mine)].body.kind = "unknown"
              /\ calls[Min(Mine)].body.command = command.command
        /\ Over => Mine # {}

\* C35 witness: LABEL with an argument was delivered as an issue comment and
\* the unknown-command comment naming LABEL was created.
C35_Witness ==
    /\ Dispatched
    /\ Over
    /\ issue.inPayload
    /\ command.command = LabelUpperWord
    /\ Len(command.args) = 1
    /\ Len(comments) = 1
    /\ comments[1].kind = "unknown"
    /\ comments[1].command = LabelUpperWord

(***************************************************************************)
(* Every handler: a comment delivery, or the deliveries of a pull request  *)
(* event with their handlers in flight together.                           *)
(***************************************************************************)
InitAny == InitSlash \/ InitOpened

\* a comment delivery runs when no pull request delivery is in flight
NextAny ==
    \/ tasks = NoTasks /\ StartSlash
    \/ tasks = NoTasks /\ SlashUsage
    \/ tasks = NoTasks /\ SlashAddLabels
    \/ tasks = NoTasks /\ SlashRemoveLabel
    \/ tasks = NoTasks /\ SlashUpdate
    \/ tasks = NoTasks /\ SlashAddAssignees
    \/ tasks = NoTasks /\ SlashRemoveAssignees
    \/ tasks = NoTasks /\ SlashCreateReview
    \/ tasks = NoTasks /\ SlashPullsGet
    \/ tasks = NoTasks /\ SlashGetPRDiff
    \/ tasks = NoTasks /\ SlashCallCodellama
    \/ tasks = NoTasks /\ SlashPostReview
    \/ tasks = NoTasks /\ SlashPROnly
    \/ tasks = NoTasks /\ SlashReviewFailed
    \/ tasks = NoTasks /\ SlashUnknown
    \/ tasks = NoTasks /\ SlashFailed
    \/ TaskDeliver
    \/ TaskCheckGetConfig
    \/ TaskCheckListCommits
    \/ TaskCreateComment
    \/ TaskLabelGetConfig
    \/ TaskLabelListCommits
    \/ TaskListLabels
    \/ TaskAddLabels

SpecAny == InitAny /\ [][NextAny]_vars

\* the calls at places i and j of the log are the same operation with the
\* same arguments, issued by the same run of a handler
SameRequest(i, j) ==
    /\ calls[i].run = calls[j].run
    /\ calls[i].op = calls[j].op
    /\ calls[i].labels = calls[j].labels
    /\ calls[i].body = calls[j].body
    /\ calls[i].arg = calls[j].arg

\* C36: within one run of a handler no remote operation is issued twice with
\* the same arguments, whether the first attempt failed or succeeded.
C36_NoRetries ==
    \A i \in 1..Len(calls) : \A j \in 1..Len(calls) :
        i < j => ~SameRequest(i, j)

\* C36 witness: a remote operation of a command failed, the handler went on
\* to issue another call, which failed too, and the handler ended.
C36_Witness ==
    /\ Over
    /\ \E i \in Mine : \E j \in Mine :
          /\ i < j
          /\ calls[i].op \in CommandOps
          /\ ~calls[i].ok
          /\ ~calls[j].ok

\* C36 witness in the pull request handlers: the commit listing failed for
\* the commit check and the check ended with that one attempt.
C36_WitnessListing ==
    \E t \in TasksOf("checkCommitsInPR") :
        /\ tasks[t].pc = "done"
        /\ \E i \in CallsOf(t, "pulls.listCommits") : ~calls[i].ok

\* the commit listing of task t failed
ListingFailed(t) == \E i \in CallsOf(t, "pulls.listCommits") : ~calls[i].ok

\* C37: a failed commit listing ends the handler it failed in, normally and
\* without further calls: the commit check posts no comment; the labeling
\* handler enters the applier with an empty label set, reads no labels and
\* adds none.
C37_ListingFailureAbortsCheckOnly ==
    /\ \A t \in TasksOf("checkCommitsInPR") :
          ListingFailed(t) =>
              /\ CallsOf(t, "issues.createComment") = {}
              /\ tasks[t].pc = "done"
              /\ tasks[t].status = "returned"
    /\ \A t \in TasksOf("autoLabelPR") :
          ListingFailed(t) =>
              /\ \A k \in AppliedBy(t) : applied[k].labels = <<>>
              /\ Cardinality(AppliedBy(t)) = 1
              /\ Reads(t) = {}
              /\ Adds(t) = {}
              /\ tasks[t].pc = "done"
              /\ tasks[t].status = "returned"

\* C37 witness: the listing failed in both handlers of a pull request whose
\* commits are invalid and name an allowed component, the title names none.
C37_Witness ==
    /\ Opened
    /\ \A t \in 1..Len(tasks) : ListingFailed(t) /\ tasks[t].pc = "done"
    /\ \E i \in 1..Len(prCommits) :
          ~Conventional(prCommits[i].message, DEFAULT_TYPE_ENUM,
                        DEFAULT_VALID_COMPONENTS)
    /\ ValidatorMatchLabels(prCommits, DEFAULT_VALID_COMPONENTS) # {}

\* the remote operation a command given with what it needs starts with
PrimaryOf(c) ==
    CASE c.command = cmdLabel /\ Len(c.args) > 0 -> "issues.addLabels"
      [] c.command = cmdUnlabel /\ Len(c.args) > 0 -> "issues.removeLabel"
      [] c.command = cmdClose -> "issues.update"
      [] c.command = cmdAssign /\ Len(c.args) > 0 -> "issues.addAssignees"
      [] c.command = cmdUnassign /\ Len(c.args) > 0 -> "issues.removeAssignees"
      [] c.command = cmdApprove -> "pulls.createReview"
      [] c.command = cmdReview -> "pulls.get"
      [] OTHER -> "none"

\* C38: a command delivered by pull_request_review_comment.created, whose
\* payload has no issue, is dispatched like the same command delivered by
\* issue_comment.created: its primary remote operation is issued first.
C38_ReviewCommentDispatched ==
    (Dispatched /\ Over /\ ~issue.inPayload /\ PrimaryOf(command) # "none") =>
        /\ Mine # {}
        /\ calls[Min(Mine)].op = PrimaryOf(command)

\* C39: in a comment delivery a comment is attempted only after every
\* earlier comment attempt of the delivery failed, so at most one comment is
\* created, whatever remote calls succeed or fail.
C39_AtMostOneComment ==
    handler = "handleSlashCommands" =>
        /\ \A i \in Comments(run) : \A j \in Comments(run) :
              i < j => ~calls[i].ok
        /\ Cardinality({i \in Comments(run) : calls[i].ok}) <= 1
        /\ Len(comments) =
              Cardinality({i \in 1..Len(calls) :
                              calls[i].op = "issues.createComment" /\ calls[i].ok})

\* C39 witness: review on an issue; the PR-only comment and the
\* review-failed comment could not be created, the generic failure comment
\* was.
C39_Witness ==
    /\ Dispatched
    /\ Over
    /\ Cardinality(Comments(run)) = 3
    /\ Len(comments) = 1
    /\ comments[1].kind = "failed"

\* the primary operation of the command at hand answered
PrimarySucceeded ==
    /\ PrimaryOf(command) \in CommandOps
    /\ \E i \in CallsOf(run, PrimaryOf(command)) : calls[i].ok

\* C40: a label, unlabel, close, assign, unassign or approve command whose
\* primary operation succeeds issues that one call and nothing else, and
\* posts no comment; a body from which no command is parsed causes no remote
\* call.
C40_OneWriteNoComment ==
    handler = "handleSlashCommands" =>
        /\ command.isNull => Mine = {}
        /\ (Dispatched /\ PrimarySucceeded) =>
              /\ Cardinality(Mine) = 1
              /\ Comments(run) = {}
              /\ Over
              /\ status = "returned"

\* C40 witness: close was delivered, issues.update answered and the target
\* is closed.
C40_Witness ==
    /\ Dispatched
    /\ Over
    /\ command.command = cmdClose
    /\ PrimarySucceeded
    /\ issue.state = "closed"

\* C40 witness of the other half: a remark without a command was delivered
\* and the handler returned.
C40_WitnessNoCommand ==
    /\ Over
    /\ command.isNull
    /\ body # <<>>
====
